---------------------------- MODULE Spec2Model ----------------------------
(***************************************************************************)
(* Build-order validation of RTS_Overlay (Age of Empires II).              *)
(*                                                                         *)
(* The document handed to check_valid_aoe2_build_order is a decoded JSON   *)
(* tree.  Python values are tagged records:                                *)
(*   None  [t |-> "none"]            bool  [t |-> "bool",  b |-> TRUE]     *)
(*   int   [t |-> "int",  i |-> 3]   float [t |-> "float", f |-> "1.5"]    *)
(*   str   [t |-> "str",  s |-> "a"] list  [t |-> "list",  l |-> <<..>>]   *)
(*   dict  [t |-> "dict", kv |-> << <<key, value>>, .. >>]  (insertion     *)
(*         order kept, keys unique, keys are strings as in JSON)           *)
(***************************************************************************)
EXTENDS Integers, Sequences, FiniteSets, TLC

VARIABLES
    data,                    \* the document object handed to the validator
    bo_name_msg,             \* the flag of the last call
    aoe2_civilization_icon,  \* keys of the faction table (module global)
    result,                  \* what the last call handed back
    prev,                    \* what the call before the last handed back
    calls,                   \* calls in a row on this document with this
                             \* flag: 0, 1, 2 (two or more)
    data_at_call,            \* the document as the last call received it
    edits,                   \* edits made to the initial document
    timing,                  \* how the last evaluate_aoe2_build_order_timing
                             \* call ended
    time_offset,             \* the time_offset of that call
    window,                  \* the BuildOrderWindow: build_order, text_input,
                             \* the label check_valid_input and whether the
                             \* buttons add_step_button, format_bo_button show
    generated,               \* the last call of a generator: its argument
                             \* and what it handed back
    overlay,                 \* the game overlay (AoE2GameOverlay or
                             \* AoE4GameOverlay): its attributes and the
                             \* request threads that have not ended yet
    handled,                 \* the last handler the overlay ran and the
                             \* overlay as that handler found it
    displayed,               \* the last update_build_order of the AoE2
                             \* overlay: the build order and step selected
                             \* and how the call ended
    objects,                 \* the resources mappings reached from more
                             \* than one place, by identity
    assigned                 \* the last assignment to a resource of a
                             \* step, and the build order before it

vars == <<data, bo_name_msg, aoe2_civilization_icon, result, prev, calls,
          data_at_call, edits, timing, time_offset, window, generated,
          overlay, handled, displayed, objects, assigned>>

(***************************************************************************)
(* Bounds of the model.                                                    *)
(***************************************************************************)
MaxEdits == 1

(***************************************************************************)
(* Python values.                                                          *)
(***************************************************************************)
PyNone == [t |-> "none"]
PyBool(x) == [t |-> "bool", b |-> x]
PyInt(n) == [t |-> "int", i |-> n]
PyFloat(txt) == [t |-> "float", f |-> txt]
PyStr(txt) == [t |-> "str", s |-> txt]
PyList(seq) == [t |-> "list", l |-> seq]
PyDict(pairs) == [t |-> "dict", kv |-> pairs]

\* type(v).__name__
TypeName(v) ==
    CASE v.t = "none" -> "NoneType"
      [] v.t = "bool" -> "bool"
      [] v.t = "int" -> "int"
      [] v.t = "float" -> "float"
      [] v.t = "str" -> "str"
      [] v.t = "list" -> "list"
      [] v.t = "dict" -> "dict"

\* sep.join(parts) for a sequence of strings
RECURSIVE Join(_, _)
Join(parts, sep) ==
    IF Len(parts) = 0 THEN ""
    ELSE IF Len(parts) = 1 THEN parts[1]
    ELSE parts[1] \o sep \o Join(Tail(parts), sep)

\* repr(v)
RECURSIVE Repr(_)
Repr(v) ==
    CASE v.t = "none" -> "None"
      [] v.t = "bool" -> (IF v.b THEN "True" ELSE "False")
      [] v.t = "int" -> ToString(v.i)
      [] v.t = "float" -> v.f
      [] v.t = "str" -> "'" \o v.s \o "'"
      [] v.t = "list" ->
            "[" \o Join([k \in 1..Len(v.l) |-> Repr(v.l[k])], ", ") \o "]"
      [] v.t = "dict" ->
            "{" \o Join([k \in 1..Len(v.kv) |->
                            "'" \o v.kv[k][1] \o "': " \o Repr(v.kv[k][2])],
                        ", ") \o "}"

\* str(v), as used by an f-string field {v}
Format(v) == IF v.t = "str" THEN v.s ELSE Repr(v)

\* substring test on strings
Contains(txt, sub) ==
    \E k \in 1..(Len(txt) - Len(sub) + 1) :
        SubSeq(txt, k, k + Len(sub) - 1) = sub

\* outcome of evaluating an expression: a value or a raised exception
Val(v) == [kind |-> "value", v |-> v]
Raise(exc, err) == [kind |-> "raise", exc |-> exc, err |-> err]

HasKey(d, key) == \E k \in 1..Len(d.kv) : d.kv[k][1] = key
Lookup(d, key) == d.kv[CHOOSE k \in 1..Len(d.kv) : d.kv[k][1] = key][2]

\* d[key] = v (an existing key keeps its place, a new key goes last)
SetKey(d, key, v) ==
    IF HasKey(d, key)
    THEN PyDict([k \in 1..Len(d.kv) |->
                    IF d.kv[k][1] = key THEN <<key, v>> ELSE d.kv[k]])
    ELSE PyDict(Append(d.kv, <<key, v>>))

\* del d[key]
DelKey(d, key) == PyDict(SelectSeq(d.kv, LAMBDA pair : pair[1] # key))

\* obj[key] with a string key
GetItem(obj, key) ==
    CASE obj.t = "dict" ->
            IF HasKey(obj, key) THEN Val(Lookup(obj, key))
            ELSE Raise("KeyError", "'" \o key \o "'")
      [] obj.t = "list" ->
            Raise("TypeError", "list indices must be integers or slices, not str")
      [] obj.t = "str" ->
            Raise("TypeError", "string indices must be integers, not 'str'")
      [] OTHER ->
            Raise("TypeError", "'" \o TypeName(obj) \o "' object is not subscriptable")

\* key in obj, with a string key
In(key, obj) ==
    CASE obj.t = "dict" -> Val(HasKey(obj, key))
      [] obj.t = "list" -> Val(\E k \in 1..Len(obj.l) : obj.l[k] = PyStr(key))
      [] obj.t = "str" -> Val(Contains(obj.s, key))
      [] OTHER ->
            Raise("TypeError",
                  "argument of type '" \o TypeName(obj) \o "' is not iterable")

\* len(obj)
PyLen(obj) ==
    CASE obj.t = "dict" -> Val(Len(obj.kv))
      [] obj.t = "list" -> Val(Len(obj.l))
      [] obj.t = "str" -> Val(Len(obj.s))
      [] OTHER ->
            Raise("TypeError",
                  "object of type '" \o TypeName(obj) \o "' has no len()")

\* the items a for loop over obj visits
Iterate(obj) ==
    CASE obj.t = "dict" -> Val([k \in 1..Len(obj.kv) |-> PyStr(obj.kv[k][1])])
      [] obj.t = "list" -> Val(obj.l)
      [] obj.t = "str" -> Val([k \in 1..Len(obj.s) |-> PyStr(SubSeq(obj.s, k, k))])
      [] OTHER ->
            Raise("TypeError", "'" \o TypeName(obj) \o "' object is not iterable")

\* isinstance(v, int): bool is a subclass of int
IsInstanceInt(v) == v.t \in {"int", "bool"}

\* int(v) for an instance of int
IntOf(v) == IF v.t = "bool" THEN (IF v.b THEN 1 ELSE 0) ELSE v.i

\* isinstance(v, str)
IsInstanceStr(v) == v.t = "str"


(***************************************************************************)
(* Control flow inside the try block of check_valid_aoe2_build_order: a    *)
(* statement returns, raises, or falls through to the next statement.      *)
(***************************************************************************)
Return(ok, msg) == [kind |-> "return", ok |-> ok, msg |-> msg]
Fall == [kind |-> "fall"]

\* statement a, then statement b when a fell through
Then(a, b) == IF a.kind = "fall" THEN b ELSE a

\* is_valid_resource of common/build_order_tools: an integer amount (>= 0),
\* the sentinel -1, or a breakdown mapping whose sub-entries are amounts
is_valid_resource(resource) ==
    CASE resource.t = "int" -> resource.i >= -1
      [] resource.t = "dict" ->
            \A k \in 1..Len(resource.kv) :
                resource.kv[k][2].t = "int" /\ resource.kv[k][2].i >= 0
      [] OTHER -> FALSE

\* x not in aoe2_civilization_icon (a dict: the key is hashed first)
NotInIconTable(x, table) ==
    CASE x.t \in {"list", "dict"} ->
            Raise("TypeError", "unhashable type: '" \o TypeName(x) \o "'")
      [] x.t = "str" -> Val(x.s \notin table)
      [] OTHER -> Val(TRUE)

\* variant: the lower-case wildcard forgotten
NotWildcard_CapitalOnly(x) == ~(x.t = "str" /\ x.s = "Any")

\* x not in ['Any', 'any']
NotWildcard(x) == ~(x.t = "str" /\ x.s \in {"Any", "any"})

\* the test of lines 34 and 37 on one civilization value
CheckCivilization(civilization, table, bo_name_str) ==
    LET unknown == NotInIconTable(civilization, table)
    IN  IF unknown.kind = "raise" THEN unknown
        ELSE IF unknown.v /\ NotWildcard(civilization)
        THEN Return(FALSE, bo_name_str \o "Unknown civilization '"
                           \o Format(civilization) \o "' (check spelling).")
        ELSE Fall

\* for civilization in civilization_data (lines 33-35)
RECURSIVE CheckCivilizationList(_, _, _)
CheckCivilizationList(civs, table, bo_name_str) ==
    IF Len(civs) = 0 THEN Fall
    ELSE Then(CheckCivilization(Head(civs), table, bo_name_str),
              CheckCivilizationList(Tail(civs), table, bo_name_str))

\* variant: no test for the empty list
CheckCivilizationField_NoEmptyCheck(d, table, bo_name_str) ==
    IF ~HasKey(d, "civilization") THEN Fall
    ELSE LET civilization_data == Lookup(d, "civilization")
         IN  IF civilization_data.t = "list"
             THEN CheckCivilizationList(civilization_data.l, table, bo_name_str)
             ELSE CheckCivilization(civilization_data, table, bo_name_str)

\* lines 27-38
CheckCivilizationField(d, table, bo_name_str) ==
    IF ~HasKey(d, "civilization") THEN Fall
    ELSE LET civilization_data == Lookup(d, "civilization")
         IN  IF civilization_data.t = "list"
             THEN IF Len(civilization_data.l) = 0
                  THEN Return(FALSE, bo_name_str \o "Valid civilization list is empty.")
                  ELSE CheckCivilizationList(civilization_data.l, table, bo_name_str)
             ELSE CheckCivilization(civilization_data, table, bo_name_str)

\* 'field' not in item -> "... is missing the 'field' field." (lines 48-58)
CheckFieldPresent(item, field, step_msg) ==
    LET present == In(field, item)
    IN  IF present.kind = "raise" THEN present
        ELSE IF ~present.v
        THEN Return(FALSE, step_msg \o " is missing the '" \o field \o "' field.")
        ELSE Fall

\* lines 61-62
CheckVillagerCount(item, step_msg) ==
    LET vc == GetItem(item, "villager_count")
    IN  IF vc.kind = "raise" THEN vc
        ELSE IF ~IsInstanceInt(vc.v)
        THEN Return(FALSE, step_msg \o " has invalid villager count ("
                           \o Format(vc.v) \o ").")
        ELSE Fall

\* variant: ages below 1 rejected too
CheckAge_LowerBound(item, step_msg) ==
    LET age == GetItem(item, "age")
    IN  IF age.kind = "raise" THEN age
        ELSE IF (~IsInstanceInt(age.v)) \/ (IntOf(age.v) > 4) \/ (IntOf(age.v) < 1)
        THEN Return(FALSE, step_msg \o " has invalid age number ("
                           \o Format(age.v) \o ") (max: 4 for Imperial).")
        ELSE Fall

\* lines 65-66
CheckAge(item, step_msg) ==
    LET age == GetItem(item, "age")
    IN  IF age.kind = "raise" THEN age
        ELSE IF (~IsInstanceInt(age.v)) \/ (IntOf(age.v) > 4)
        THEN Return(FALSE, step_msg \o " has invalid age number ("
                           \o Format(age.v) \o ") (max: 4 for Imperial).")
        ELSE Fall

\* 'field' not in resources (lines 71-81)
CheckResourcePresent(resources, field, step_msg) ==
    LET present == In(field, resources)
    IN  IF present.kind = "raise" THEN present
        ELSE IF ~present.v
        THEN Return(FALSE, step_msg \o " is missing the '" \o field
                           \o "' field in 'resources'.")
        ELSE Fall

\* variant: the message of an invalid resource without the name of the field
CheckResourceValid_FieldUnnamed(resources, field, step_msg) ==
    LET amount == GetItem(resources, field)
    IN  IF amount.kind = "raise" THEN amount
        ELSE IF ~is_valid_resource(amount.v)
        THEN Return(FALSE, step_msg \o " has an invalid resource ("
                           \o Format(amount.v) \o ").")
        ELSE Fall

\* not is_valid_resource(resources['field']) (lines 83-93)
CheckResourceValid(resources, field, step_msg) ==
    LET amount == GetItem(resources, field)
    IN  IF amount.kind = "raise" THEN amount
        ELSE IF ~is_valid_resource(amount.v)
        THEN Return(FALSE, step_msg \o " has an invalid '" \o field
                           \o "' resource (" \o Format(amount.v) \o ").")
        ELSE Fall

\* variant: a builder count is required
CheckBuilder_Required(resources, step_msg) ==
    LET present == In("builder", resources)
    IN  IF present.kind = "raise" THEN present
        ELSE IF ~present.v
        THEN Return(FALSE, step_msg \o " has an invalid 'builder' resource.")
        ELSE LET amount == GetItem(resources, "builder")
             IN  IF amount.kind = "raise" THEN amount
                 ELSE IF ~is_valid_resource(amount.v)
                 THEN Return(FALSE, step_msg \o " has an invalid 'builder' resource.")
                 ELSE Fall

\* lines 96-97
CheckBuilder(resources, step_msg) ==
    LET present == In("builder", resources)
    IN  IF present.kind = "raise" THEN present
        ELSE IF ~present.v THEN Fall
        ELSE LET amount == GetItem(resources, "builder")
             IN  IF amount.kind = "raise" THEN amount
                 ELSE IF ~is_valid_resource(amount.v)
                 THEN Return(FALSE, step_msg \o " has an invalid 'builder' resource.")
                 ELSE Fall

\* lines 69-97
CheckResources(item, step_msg) ==
    LET got == GetItem(item, "resources")
    IN  IF got.kind = "raise" THEN got
        ELSE LET resources == got.v
             IN  Then(CheckResourcePresent(resources, "wood", step_msg),
                 Then(CheckResourcePresent(resources, "food", step_msg),
                 Then(CheckResourcePresent(resources, "gold", step_msg),
                 Then(CheckResourcePresent(resources, "stone", step_msg),
                 Then(CheckResourceValid(resources, "wood", step_msg),
                 Then(CheckResourceValid(resources, "food", step_msg),
                 Then(CheckResourceValid(resources, "gold", step_msg),
                 Then(CheckResourceValid(resources, "stone", step_msg),
                      CheckBuilder(resources, step_msg)))))))))

\* for note in notes (lines 101-103), over the items the loop visits
RECURSIVE CheckNoteItems(_, _)
CheckNoteItems(items, step_msg) ==
    IF Len(items) = 0 THEN Fall
    ELSE IF ~IsInstanceStr(Head(items))
    THEN Return(FALSE, step_msg \o " note '" \o Format(Head(items))
                       \o "' is not a string.")
    ELSE CheckNoteItems(Tail(items), step_msg)

\* lines 100-103
CheckNotes(item, step_msg) ==
    LET notes == GetItem(item, "notes")
    IN  IF notes.kind = "raise" THEN notes
        ELSE LET items == Iterate(notes.v)
             IN  IF items.kind = "raise" THEN items
                 ELSE CheckNoteItems(items.v, step_msg)

\* variant: steps numbered from 1
StepStr_OneBased(step_id) == "Step " \o ToString(step_id + 1)

\* step_str = f'Step {step_id}' (line 45)
StepStr(step_id) == "Step " \o ToString(step_id)

\* variant: the age looked at before the villager count
CheckStep_AgeFirst(item, step_id, bo_name_str) ==
    LET step_msg == bo_name_str \o StepStr(step_id)
    IN  Then(CheckFieldPresent(item, "villager_count", step_msg),
        Then(CheckFieldPresent(item, "age", step_msg),
        Then(CheckFieldPresent(item, "resources", step_msg),
        Then(CheckFieldPresent(item, "notes", step_msg),
        Then(CheckAge(item, step_msg),
        Then(CheckVillagerCount(item, step_msg),
        Then(CheckResources(item, step_msg),
             CheckNotes(item, step_msg))))))))

\* the body of the loop on the build order steps (lines 45-103)
CheckStep(item, step_id, bo_name_str) ==
    LET step_msg == bo_name_str \o StepStr(step_id)
    IN  Then(CheckFieldPresent(item, "villager_count", step_msg),
        Then(CheckFieldPresent(item, "age", step_msg),
        Then(CheckFieldPresent(item, "resources", step_msg),
        Then(CheckFieldPresent(item, "notes", step_msg),
        Then(CheckVillagerCount(item, step_msg),
        Then(CheckAge(item, step_msg),
        Then(CheckResources(item, step_msg),
             CheckNotes(item, step_msg))))))))

\* variant: the step index does not advance
RECURSIVE CheckSteps_IndexStuck(_, _, _)
CheckSteps_IndexStuck(items, step_id, bo_name_str) ==
    IF Len(items) = 0 THEN Fall
    ELSE Then(CheckStep(Head(items), step_id, bo_name_str),
              CheckSteps_IndexStuck(Tail(items), step_id, bo_name_str))

\* for step_id, item in enumerate(build_order) (line 44)
RECURSIVE CheckSteps(_, _, _)
CheckSteps(items, step_id, bo_name_str) ==
    IF Len(items) = 0 THEN Fall
    ELSE Then(CheckStep(Head(items), step_id, bo_name_str),
              CheckSteps(Tail(items), step_id + 1, bo_name_str))

\* variant: no test of the length
CheckBuildOrder_EmptyAccepted(build_order, bo_name_str) ==
    LET items == Iterate(build_order)
    IN  IF items.kind = "raise" THEN items
        ELSE CheckSteps(items.v, 0, bo_name_str)

\* variant: a build order of a single step taken for empty
CheckBuildOrder_SingleStepRejected(build_order, bo_name_str) ==
    LET size == PyLen(build_order)
    IN  IF size.kind = "raise" THEN size
        ELSE IF size.v <= 1
        THEN Return(FALSE, bo_name_str \o "Build order is empty.")
        ELSE LET items == Iterate(build_order)
             IN  IF items.kind = "raise" THEN items
                 ELSE CheckSteps(items.v, 0, bo_name_str)

\* lines 40-103
CheckBuildOrder(build_order, bo_name_str) ==
    LET size == PyLen(build_order)
    IN  IF size.kind = "raise" THEN size
        ELSE IF size.v < 1
        THEN Return(FALSE, bo_name_str \o "Build order is empty.")
        ELSE LET items == Iterate(build_order)
             IN  IF items.kind = "raise" THEN items
                 ELSE CheckSteps(items.v, 0, bo_name_str)

\* variant: the name followed by a colon
BoNameStr_Colon(d, name_msg) ==
    LET name == GetItem(d, "name")
    IN  IF name.kind = "value" /\ name_msg THEN Format(name.v) \o ": " ELSE ""

\* bo_name_str as the except clauses see it (lines 18-22): the prefix is set
\* only once data['name'] was read and bo_name_msg is true
BoNameStr(d, name_msg) ==
    LET name == GetItem(d, "name")
    IN  IF name.kind = "value" /\ name_msg THEN Format(name.v) \o " | " ELSE ""

\* variant: a missing name tolerated (data.get('name'))
TryBlock_NameOptional(d, name_msg, table) ==
    IF d.t # "dict" THEN GetItem(d, "name")
    ELSE LET bo_name_str == BoNameStr(d, name_msg)
             build_order == GetItem(d, "build_order")
         IN  IF build_order.kind = "raise" THEN build_order
             ELSE Then(CheckCivilizationField(d, table, bo_name_str),
                       CheckBuildOrder(build_order.v, bo_name_str))

\* the try block (lines 19-103)
TryBlock(d, name_msg, table) ==
    LET name == GetItem(d, "name")
    IN  IF name.kind = "raise" THEN name
        ELSE LET bo_name_str == BoNameStr(d, name_msg)
                 build_order == GetItem(d, "build_order")
             IN  IF build_order.kind = "raise" THEN build_order
                 ELSE Then(CheckCivilizationField(d, table, bo_name_str),
                           CheckBuildOrder(build_order.v, bo_name_str))

\* the classes the try block can raise, and which of them derive from Exception
IsException(exc) == exc \in {"KeyError", "TypeError", "ValueError", "AttributeError"}

\* variant: only KeyError caught
ExceptClauses_KeyErrorOnly(outcome, bo_name_str) ==
    IF outcome.exc = "KeyError"
    THEN Return(FALSE, bo_name_str \o "Wrong JSON key: " \o outcome.err \o ".")
    ELSE outcome

\* the except clauses (lines 105-109): KeyError first, then every Exception;
\* anything else would leave the function as a raised exception
ExceptClauses(outcome, bo_name_str) ==
    IF outcome.exc = "KeyError"
    THEN Return(FALSE, bo_name_str \o "Wrong JSON key: " \o outcome.err \o ".")
    ELSE IF IsException(outcome.exc)
    THEN Return(FALSE, bo_name_str \o outcome.err)
    ELSE outcome

\* check_valid_aoe2_build_order(data, bo_name_msg): what the call hands back
check_valid_aoe2_build_order(d, name_msg, table) ==
    LET outcome == TryBlock(d, name_msg, table)
    IN  CASE outcome.kind = "return" -> outcome
          [] outcome.kind = "raise" -> ExceptClauses(outcome, BoNameStr(d, name_msg))
          [] outcome.kind = "fall" -> Return(TRUE, "")


\* variant: the name taken out of the document (data.pop('name'))
DataAfterCheck_PopsName(d) == IF d.t = "dict" THEN DelKey(d, "name") ELSE d

\* the call leaves its argument as it found it: no statement of lines 5-111
\* assigns to data or to anything reachable from it
DataAfterCheck(d) == d

\* variant: a civilization the table lacks is entered into it
IconTableAfterCheck_Registers(table, d) ==
    IF d.t = "dict" /\ HasKey(d, "civilization") /\ Lookup(d, "civilization").t = "str"
    THEN table \cup {Lookup(d, "civilization").s}
    ELSE table

\* the call reads aoe2_civilization_icon (lines 34, 37) and never writes it
IconTableAfterCheck(table, d) == table

(***************************************************************************)
(* evaluate_aoe2_build_order_timing(data, time_offset): the call returns   *)
(* None or raises, and it updates the steps of data in place.              *)
(***************************************************************************)
\* creation time of a villager [sec]
villager_time == 25

\* the call came back; printed is what it wrote on the standard output
Returned(printed) == [kind |-> "returned", printed |-> printed]

\* build_order_time_to_str of common/build_order_tools for a whole number of
\* seconds: minutes, a colon, the seconds on two digits
build_order_time_to_str(time_sec) ==
    LET minutes == time_sec \div 60
        seconds == time_sec % 60
    IN  ToString(minutes) \o ":" \o (IF seconds < 10 THEN "0" ELSE "")
        \o ToString(seconds)

\* villager_time * villager_count + time_offset with time_offset an int: an
\* int times a str or a list repeats it, and the sum with an int then fails
TimingSeconds(villager_count, offset) ==
    CASE villager_count.t \in {"int", "bool"} ->
            Val(villager_time * IntOf(villager_count) + offset)
      [] villager_count.t \in {"str", "list"} ->
            Raise("TypeError", "can only concatenate " \o TypeName(villager_count)
                               \o " (not \"int\") to " \o TypeName(villager_count))
      [] OTHER ->
            Raise("TypeError", "unsupported operand type(s) for *: 'int' and '"
                               \o TypeName(villager_count) \o "'")

\* variant: the time of a step added to the times of the steps after it
RECURSIVE TimingSteps_Accumulated(_, _)
TimingSteps_Accumulated(steps, offset) ==
    IF Len(steps) = 0 THEN [outcome |-> Fall, steps |-> <<>>]
    ELSE LET step == Head(steps)
             villager_count == GetItem(step, "villager_count")
             seconds == IF villager_count.kind = "raise" THEN villager_count
                        ELSE TimingSeconds(villager_count.v, offset)
         IN  IF seconds.kind = "raise" THEN [outcome |-> seconds, steps |-> steps]
             ELSE LET rest == TimingSteps_Accumulated(Tail(steps), seconds.v)
                      timed == SetKey(step, "time",
                                      PyStr(build_order_time_to_str(seconds.v)))
                  IN  [outcome |-> rest.outcome, steps |-> <<timed>> \o rest.steps]

\* variant: the villager_count is taken out of the step that receives its time
RECURSIVE TimingSteps_CountPopped(_, _)
TimingSteps_CountPopped(steps, offset) ==
    IF Len(steps) = 0 THEN [outcome |-> Fall, steps |-> <<>>]
    ELSE LET step == Head(steps)
             villager_count == GetItem(step, "villager_count")
             seconds == IF villager_count.kind = "raise" THEN villager_count
                        ELSE TimingSeconds(villager_count.v, offset)
         IN  IF seconds.kind = "raise" THEN [outcome |-> seconds, steps |-> steps]
             ELSE LET rest == TimingSteps_CountPopped(Tail(steps), offset)
                      timed == SetKey(DelKey(step, "villager_count"), "time",
                                      PyStr(build_order_time_to_str(seconds.v)))
                  IN  [outcome |-> rest.outcome, steps |-> <<timed>> \o rest.steps]

\* for step in build_order_data (lines 205-207): the steps as the loop leaves
\* them, and Fall when it ran to its end or the exception that stopped it
RECURSIVE TimingSteps(_, _)
TimingSteps(steps, offset) ==
    IF Len(steps) = 0 THEN [outcome |-> Fall, steps |-> <<>>]
    ELSE LET step == Head(steps)
             villager_count == GetItem(step, "villager_count")
             seconds == IF villager_count.kind = "raise" THEN villager_count
                        ELSE TimingSeconds(villager_count.v, offset)
         IN  IF seconds.kind = "raise" THEN [outcome |-> seconds, steps |-> steps]
             ELSE LET rest == TimingSteps(Tail(steps), offset)
                      timed == SetKey(step, "time",
                                      PyStr(build_order_time_to_str(seconds.v)))
                  IN  [outcome |-> rest.outcome, steps |-> <<timed>> \o rest.steps]

\* the warning of line 201
TimingWarning ==
    "The 'build_order' field is missing from data when evaluating the timing."

\* variant: no test for the presence of build_order before it is read
evaluate_aoe2_build_order_timing_NoPresenceTest(d, offset) ==
    LET build_order_data == GetItem(d, "build_order")
    IN  IF build_order_data.kind = "raise"
        THEN [outcome |-> build_order_data, data |-> d]
        ELSE LET items == Iterate(build_order_data.v)
             IN  IF items.kind = "raise" THEN [outcome |-> items, data |-> d]
                 ELSE LET loop == TimingSteps(items.v, offset)
                          outcome == IF loop.outcome.kind = "fall"
                                     THEN Returned("") ELSE loop.outcome
                      IN  [outcome |-> outcome,
                           data |-> IF build_order_data.v.t = "list"
                                    THEN SetKey(d, "build_order", PyList(loop.steps))
                                    ELSE d]

\* lines 200-207: how the call ends and the document it leaves.  Only the
\* elements of a list are objects the caller still holds: the keys of a
\* mapping and the characters of a string are visited as strings, on which
\* step['villager_count'] fails
evaluate_aoe2_build_order_timing(d, offset) ==
    LET present == In("build_order", d)
    IN  IF present.kind = "raise" THEN [outcome |-> present, data |-> d]
        ELSE IF ~present.v THEN [outcome |-> Returned(TimingWarning), data |-> d]
        ELSE LET build_order_data == GetItem(d, "build_order")
             IN  IF build_order_data.kind = "raise"
                 THEN [outcome |-> build_order_data, data |-> d]
                 ELSE LET items == Iterate(build_order_data.v)
                      IN  IF items.kind = "raise" THEN [outcome |-> items, data |-> d]
                          ELSE LET loop == TimingSteps(items.v, offset)
                                   outcome == IF loop.outcome.kind = "fall"
                                              THEN Returned("") ELSE loop.outcome
                               IN  [outcome |-> outcome,
                                    data |-> IF build_order_data.v.t = "list"
                                             THEN SetKey(d, "build_order", PyList(loop.steps))
                                             ELSE d]

(***************************************************************************)
(* The build-order editor (BuildOrderWindow).  The content of text_input   *)
(* is kept as what json.loads makes of it: the text of a JSON value, or a  *)
(* text that is no JSON.                                                   *)
(***************************************************************************)
\* json.dumps(v, indent=4): a text that decodes to v
json_dumps(v) == [kind |-> "json", v |-> v]

\* a text json.loads rejects
PlainText(txt) == [kind |-> "plain", s |-> txt]

\* json.loads(text)
json_loads(text) ==
    IF text.kind = "json" THEN Val(text.v) ELSE Raise("JSONDecodeError", "")

\* the window after __init__ (lines 64, 77, 145, 156, 159): no build order,
\* the instructions in the text input, both buttons hidden
BuildOrderWindow ==
    [build_order |-> PyNone,
     text_input |-> PlainText("edit_init_text"),
     check_valid_input |-> "Update the build order in the top panel.",
     add_step_button |-> FALSE,
     format_bo_button |-> FALSE]

\* no overlay was constructed
NoOverlay == [game |-> "none"]

(***************************************************************************)
(* Editing a document: the caller builds the dict by decoding the JSON     *)
(* text the user types, so any JSON tree can reach the validator.          *)
(***************************************************************************)
\* get_aoe2_build_order_step() without argument (lines 157-170)
DefaultStep ==
    PyDict(<< <<"villager_count", PyInt(0)>>,
              <<"age", PyInt(1)>>,
              <<"resources", PyDict(<< <<"wood", PyInt(0)>>, <<"food", PyInt(0)>>,
                                       <<"gold", PyInt(0)>>, <<"stone", PyInt(0)>> >>)>>,
              <<"notes", PyList(<<PyStr("Note 1."), PyStr("Note 2.")>>)>> >>)

\* get_aoe2_build_order_template() (lines 180-186)
Template ==
    PyDict(<< <<"name", PyStr("Build order name")>>,
              <<"civilization", PyStr("Generic")>>,
              <<"author", PyStr("Author")>>,
              <<"source", PyStr("Source")>>,
              <<"build_order", PyList(<<DefaultStep>>)>> >>)

\* a hand-written document of two steps, the second with a builder count
TwoSteps ==
    PyDict(<< <<"name", PyStr("BO")>>,
              <<"build_order", PyList(<<
                  PyDict(<< <<"villager_count", PyInt(6)>>,
                            <<"age", PyInt(1)>>,
                            <<"resources", PyDict(<< <<"wood", PyInt(0)>>, <<"food", PyInt(6)>>,
                                                     <<"gold", PyInt(0)>>, <<"stone", PyInt(0)>> >>)>>,
                            <<"notes", PyList(<<PyStr("Start")>>)>> >>),
                  PyDict(<< <<"villager_count", PyInt(10)>>,
                            <<"age", PyInt(2)>>,
                            <<"resources", PyDict(<< <<"wood", PyInt(4)>>, <<"food", PyInt(6)>>,
                                                     <<"gold", PyInt(-1)>>, <<"stone", PyInt(0)>>,
                                                     <<"builder", PyInt(1)>> >>)>>,
                            <<"notes", PyList(<<>>)>> >>) >>)>> >>)

\* a document without name, for one civilization
Untitled ==
    PyDict(<< <<"civilization", PyStr("Britons")>>,
              <<"build_order", PyList(<<
                  PyDict(<< <<"villager_count", PyInt(3)>>,
                            <<"age", PyInt(1)>>,
                            <<"resources", PyDict(<< <<"wood", PyInt(0)>>, <<"food", PyInt(3)>>,
                                                     <<"gold", PyInt(0)>>, <<"stone", PyInt(0)>> >>)>>,
                            <<"notes", PyList(<<PyStr("Sheep")>>)>> >>) >>)>> >>)

InitialDocuments == {Template, TwoSteps, Untitled}

\* the faction tables tried for aoe2_civilization_icon (its keys)
IconTables == {{"Britons", "Franks"}, {"Britons", "Generic"}}

\* values the user may type
DocumentValues == {PyNone, PyList(<<>>), PyStr("abc")}
NameValues == {PyStr("BO"), PyNone}
CivilizationValues ==
    {PyStr("Franks"), PyStr("Any"), PyStr("any"), PyStr("Atlantis"),
     PyList(<<>>), PyList(<<PyStr("Britons"), PyStr("any")>>),
     PyList(<<PyStr("Any"), PyStr("Atlantis")>>), PyList(<<PyList(<<>>)>>),
     PyDict(<<>>), PyInt(3)}
BuildOrderValues ==
    {PyList(<<>>), PyDict(<< <<"a", PyInt(1)>> >>), PyStr("ab"), PyInt(3)}
StepValues == {PyInt(3), PyList(<<>>), PyStr("age")}
StepFields == {"villager_count", "age", "resources", "notes"}
StepFieldValues(field) ==
    CASE field = "villager_count" ->
            {PyBool(TRUE), PyStr("6"), PyFloat("1.5"), PyNone, PyList(<<PyInt(1)>>)}
      [] field = "age" ->
            {PyInt(-1), PyInt(0), PyInt(4), PyInt(5), PyBool(TRUE), PyStr("1"),
             PyFloat("1.0"), PyNone}
      [] field = "resources" ->
            {PyInt(3), PyList(<<>>), PyStr("wood")}
      [] field = "notes" ->
            {PyList(<<PyStr("a"), PyInt(1)>>), PyStr("ab"),
             PyDict(<< <<"k", PyInt(1)>> >>), PyInt(3)}
ResourceFields == {"wood", "food", "gold", "stone", "builder"}
ResourceValues ==
    {PyInt(-2), PyStr("x"),
     PyDict(<< <<"lumber camp", PyInt(3)>> >>),
     PyDict(<< <<"lumber camp", PyStr("3")>> >>)}

\* the steps of the document when it holds a list of steps, else none
Steps(d) ==
    IF d.t = "dict" /\ HasKey(d, "build_order") /\ Lookup(d, "build_order").t = "list"
    THEN Lookup(d, "build_order").l ELSE <<>>

\* the document with step k (1-based position in the list) replaced
WithStep(d, k, step) ==
    SetKey(d, "build_order", PyList([Steps(d) EXCEPT ![k] = step]))

Edited(d) ==
    /\ edits < MaxEdits
    /\ data' = d
    /\ edits' = edits + 1
    /\ result' = [kind |-> "none"]
    /\ prev' = [kind |-> "none"]
    /\ calls' = 0
    /\ data_at_call' = PyNone
    /\ UNCHANGED <<bo_name_msg, aoe2_civilization_icon, timing, time_offset, window,
                   generated, overlay, handled, displayed, objects, assigned>>

ReplaceDocument == \E v \in DocumentValues : Edited(v)

SetName == data.t = "dict" /\ \E v \in NameValues : Edited(SetKey(data, "name", v))

SetCivilization ==
    data.t = "dict" /\ \E v \in CivilizationValues : Edited(SetKey(data, "civilization", v))

SetBuildOrder ==
    data.t = "dict" /\ \E v \in BuildOrderValues : Edited(SetKey(data, "build_order", v))

DeleteField ==
    /\ data.t = "dict"
    /\ \E key \in {"name", "civilization", "build_order"} :
          HasKey(data, key) /\ Edited(DelKey(data, key))

AppendStep ==
    /\ Steps(data) # <<>>
    /\ Edited(SetKey(data, "build_order", PyList(Append(Steps(data), DefaultStep))))

ReplaceStep ==
    \E k \in 1..Len(Steps(data)) : \E v \in StepValues : Edited(WithStep(data, k, v))

SetStepField ==
    \E k \in 1..Len(Steps(data)) : \E field \in StepFields :
        /\ Steps(data)[k].t = "dict"
        /\ \E v \in StepFieldValues(field) :
              Edited(WithStep(data, k, SetKey(Steps(data)[k], field, v)))

DeleteStepField ==
    \E k \in 1..Len(Steps(data)) : \E field \in StepFields :
        /\ Steps(data)[k].t = "dict"
        /\ HasKey(Steps(data)[k], field)
        /\ Edited(WithStep(data, k, DelKey(Steps(data)[k], field)))

\* the resources mapping of a step, when it has one
HasResources(step) ==
    step.t = "dict" /\ HasKey(step, "resources") /\ Lookup(step, "resources").t = "dict"

SetResource ==
    \E k \in 1..Len(Steps(data)) : \E field \in ResourceFields : \E v \in ResourceValues :
        /\ HasResources(Steps(data)[k])
        /\ Edited(WithStep(data, k,
                    SetKey(Steps(data)[k], "resources",
                           SetKey(Lookup(Steps(data)[k], "resources"), field, v))))

DeleteResource ==
    \E k \in 1..Len(Steps(data)) : \E field \in ResourceFields :
        /\ HasResources(Steps(data)[k])
        /\ HasKey(Lookup(Steps(data)[k], "resources"), field)
        /\ Edited(WithStep(data, k,
                    SetKey(Steps(data)[k], "resources",
                           DelKey(Lookup(Steps(data)[k], "resources"), field))))

\* valid, msg = check_valid_aoe2_build_order(data, bo_name_msg=flag); calls
\* counts the consecutive calls made on this document with this flag
Validate ==
    \E flag \in BOOLEAN :
        LET again == calls > 0 /\ flag = bo_name_msg
        IN  /\ bo_name_msg' = flag
            /\ result' = check_valid_aoe2_build_order(data, flag, aoe2_civilization_icon)
            /\ prev' = IF again THEN result ELSE [kind |-> "none"]
            /\ calls' = IF again THEN 2 ELSE 1
            /\ data_at_call' = data
            /\ data' = DataAfterCheck(data)
            /\ aoe2_civilization_icon' = IconTableAfterCheck(aoe2_civilization_icon, data)
            /\ UNCHANGED <<edits, timing, time_offset, window, generated,
                           overlay, handled, displayed, objects, assigned>>

Init ==
    /\ data \in InitialDocuments
    /\ bo_name_msg = FALSE
    /\ aoe2_civilization_icon \in IconTables
    /\ result = [kind |-> "none"]
    /\ prev = [kind |-> "none"]
    /\ calls = 0
    /\ data_at_call = PyNone
    /\ edits = 0
    /\ timing = [kind |-> "none"]
    /\ time_offset = 0
    /\ window = BuildOrderWindow
    /\ generated = [kind |-> "none"]
    /\ overlay = NoOverlay
    /\ handled = [handler |-> "none"]
    /\ displayed = [kind |-> "none"]
    /\ objects = <<>>
    /\ assigned = [kind |-> "none"]

Next ==
    \/ ReplaceDocument
    \/ SetName
    \/ SetCivilization
    \/ SetBuildOrder
    \/ DeleteField
    \/ AppendStep
    \/ ReplaceStep
    \/ SetStepField
    \/ DeleteStepField
    \/ SetResource
    \/ DeleteResource
    \/ Validate

Spec == Init /\ [][Next]_vars


(***************************************************************************)
(* The generators: a document is reset to the template, or receives a step *)
(* derived from its last one.                                              *)
(***************************************************************************)
\* data[key] if (key in data) else default, with a string key
GetOrDefault(obj, key, default) ==
    LET present == In(key, obj)
    IN  IF present.kind = "raise" THEN present
        ELSE IF present.v THEN GetItem(obj, key)
        ELSE Val(default)

\* variant: the fields are carried over from the first step
get_aoe2_build_order_step_FirstStep(build_order_data) ==
    IF build_order_data = PyNone THEN Val(DefaultStep)
    ELSE IF ~(build_order_data.t = "list" /\ Len(build_order_data.l) >= 1)
    THEN Raise("AssertionError", "")
    ELSE LET first == build_order_data.l[1]
             villager_count == GetOrDefault(first, "villager_count", PyInt(0))
             age == GetOrDefault(first, "age", PyInt(1))
             resources == GetOrDefault(first, "resources",
                                       Lookup(DefaultStep, "resources"))
         IN  IF villager_count.kind = "raise" THEN villager_count
             ELSE IF age.kind = "raise" THEN age
             ELSE IF resources.kind = "raise" THEN resources
             ELSE Val(PyDict(<< <<"villager_count", villager_count.v>>,
                                <<"age", age.v>>,
                                <<"resources", resources.v>>,
                                <<"notes", Lookup(DefaultStep, "notes")>> >>))

\* get_aoe2_build_order_step(build_order_data) (lines 139-170); PyNone stands
\* for the call without argument
get_aoe2_build_order_step(build_order_data) ==
    IF build_order_data = PyNone THEN Val(DefaultStep)
    ELSE IF ~(build_order_data.t = "list" /\ Len(build_order_data.l) >= 1)
    THEN Raise("AssertionError", "")
    ELSE LET last == build_order_data.l[Len(build_order_data.l)]
             villager_count == GetOrDefault(last, "villager_count", PyInt(0))
             age == GetOrDefault(last, "age", PyInt(1))
             resources == GetOrDefault(last, "resources",
                                       Lookup(DefaultStep, "resources"))
         IN  IF villager_count.kind = "raise" THEN villager_count
             ELSE IF age.kind = "raise" THEN age
             ELSE IF resources.kind = "raise" THEN resources
             ELSE Val(PyDict(<< <<"villager_count", villager_count.v>>,
                                <<"age", age.v>>,
                                <<"resources", resources.v>>,
                                <<"notes", Lookup(DefaultStep, "notes")>> >>))

\* get_aoe2_build_order_template() (lines 180-186)
get_aoe2_build_order_template ==
    PyDict(<< <<"name", PyStr("Build order name")>>,
              <<"civilization", PyStr("Generic")>>,
              <<"author", PyStr("Author")>>,
              <<"source", PyStr("Source")>>,
              <<"build_order", PyList(<<get_aoe2_build_order_step(PyNone).v>>)>> >>)

\* data = get_aoe2_build_order_template()
ResetTemplate == Edited(get_aoe2_build_order_template)

\* data['build_order'].append(get_aoe2_build_order_step(data['build_order']))
AppendGeneratedStep ==
    /\ data.t = "dict"
    /\ HasKey(data, "build_order")
    /\ LET build_order == Lookup(data, "build_order")
           step == get_aoe2_build_order_step(build_order)
       IN  /\ step.kind = "value"
           /\ Edited(SetKey(data, "build_order", PyList(Append(build_order.l, step.v))))

NextGenerators ==
    \/ ReplaceDocument
    \/ SetName
    \/ SetCivilization
    \/ SetBuildOrder
    \/ DeleteField
    \/ AppendStep
    \/ ReplaceStep
    \/ SetStepField
    \/ DeleteStepField
    \/ SetResource
    \/ DeleteResource
    \/ ResetTemplate
    \/ AppendGeneratedStep
    \/ Validate

SpecGenerators == Init /\ [][NextGenerators]_vars

(***************************************************************************)
(* Calls of the generators on the document being edited.                   *)
(***************************************************************************)
\* no generator was called yet
Ungenerated == generated.kind = "none"

\* what a generator call leaves: its argument, as received and as it is
\* after the call, and what it handed back.  The generators have no
\* assignment to build_order_data nor to anything reached from it.
GeneratorCalled(kind, argument, returned) ==
    /\ generated' = [kind |-> kind, argument |-> argument, returned |-> returned]
    /\ data_at_call' = data
    /\ UNCHANGED <<data, bo_name_msg, aoe2_civilization_icon, result, prev, calls,
                   edits, timing, time_offset, window, overlay, handled,
                   displayed, objects, assigned>>

\* get_aoe2_build_order_step()
GetDefaultStep ==
    GeneratorCalled("step", PyNone, get_aoe2_build_order_step(PyNone))

\* get_aoe2_build_order_step(data['build_order'])
GetNextStep ==
    /\ data.t = "dict"
    /\ HasKey(data, "build_order")
    /\ Lookup(data, "build_order") # PyNone
    /\ GeneratorCalled("step", Lookup(data, "build_order"),
                       get_aoe2_build_order_step(Lookup(data, "build_order")))

\* get_aoe2_build_order_template()
GetTemplate ==
    GeneratorCalled("template", PyNone, Val(get_aoe2_build_order_template))

NextStepCalls ==
    \/ Ungenerated /\ ReplaceDocument
    \/ Ungenerated /\ SetName
    \/ Ungenerated /\ SetCivilization
    \/ Ungenerated /\ SetBuildOrder
    \/ Ungenerated /\ DeleteField
    \/ Ungenerated /\ AppendStep
    \/ Ungenerated /\ ReplaceStep
    \/ Ungenerated /\ SetStepField
    \/ Ungenerated /\ DeleteStepField
    \/ Ungenerated /\ SetResource
    \/ Ungenerated /\ DeleteResource
    \/ GetDefaultStep
    \/ GetNextStep
    \/ GetTemplate

SpecStepCalls == Init /\ [][NextStepCalls]_vars

(***************************************************************************)
(* The handlers of the build-order editor.                                 *)
(***************************************************************************)
\* lines 313-320: the build order held and the label, given what the
\* validator answered on the decoded text
InputJudged(w, decoded, checked) ==
    IF checked.ok
    THEN [w EXCEPT !.build_order = decoded,
                   !.check_valid_input = "Valid build order."]
    ELSE [w EXCEPT !.build_order = PyNone,
                   !.check_valid_input = "Invalid BO: " \o checked.msg]

\* lines 309-326: the try statement, given what json.loads made of the text
InputDecoded(w, decoded, table) ==
    IF decoded.kind = "raise"
    THEN [w EXCEPT !.build_order = PyNone,
                   !.check_valid_input = "Build order input is not a valid JSON format."]
    ELSE InputJudged(w, decoded.v,
                     check_valid_aoe2_build_order(decoded.v, FALSE, table))

\* lines 328-334: the two buttons show when a build order is held
ButtonsUpdated(w) ==
    [w EXCEPT !.add_step_button = (w.build_order # PyNone),
              !.format_bo_button = (w.build_order # PyNone)]

\* check_valid_input_bo (lines 307-336)
check_valid_input_bo(w, table) ==
    ButtonsUpdated(InputDecoded(w, json_loads(w.text_input), table))

\* variant: the text replaced without the textChanged signal
setText_Silent(w, text, table) == [w EXCEPT !.text_input = text]

\* text_input.setText(text): the content is replaced and textChanged, which
\* line 86 connects to check_valid_input_bo, is emitted
setText(w, text, table) ==
    check_valid_input_bo([w EXCEPT !.text_input = text], table)

\* format_build_order (lines 338-344)
format_build_order(w, table) ==
    IF w.build_order # PyNone
    THEN setText(w, json_dumps(w.build_order), table)
    ELSE w

\* reset_build_order (lines 346-349), parent.get_build_order_template being
\* get_aoe2_build_order_template
reset_build_order(w, table) ==
    format_build_order([w EXCEPT !.build_order = get_aoe2_build_order_template],
                       table)

\* add_build_order_step (lines 351-354), parent.get_build_order_step being
\* get_aoe2_build_order_step
add_build_order_step(w, table) ==
    LET steps == Lookup(w.build_order, "build_order")
        longer == PyList(Append(steps.l, get_aoe2_build_order_step(PyNone).v))
    IN  format_build_order(
            [w EXCEPT !.build_order = SetKey(w.build_order, "build_order", longer)],
            table)

\* the most steps a build order is grown to with the Add step button
MaxSteps == 3

\* what the user types into the text input
TypedDocuments ==
    InitialDocuments \cup DocumentValues
    \cup {SetKey(TwoSteps, "civilization", v) : v \in CivilizationValues}
    \cup {SetKey(Untitled, "name", v) : v \in NameValues}
    \cup {SetKey(Template, "build_order", v) : v \in BuildOrderValues}
    \cup {WithStep(TwoSteps, 2, v) : v \in StepValues}
    \cup UNION {{WithStep(TwoSteps, 1, SetKey(Steps(TwoSteps)[1], field, v)) :
                    v \in StepFieldValues(field)} : field \in StepFields}
TypedTexts ==
    {json_dumps(d) : d \in TypedDocuments} \cup {PlainText(""), PlainText("{'name': ")}

\* the user changes the text input: textChanged -> check_valid_input_bo
TextChanged ==
    \E text \in TypedTexts :
        window' = setText(window, text, aoe2_civilization_icon)

\* click on 'Reset build order' (always shown)
ClickReset == window' = reset_build_order(window, aoe2_civilization_icon)

\* click on 'Add step', which can be clicked only while it is shown
ClickAddStep ==
    /\ window.add_step_button
    /\ Len(Steps(window.build_order)) < MaxSteps
    /\ window' = add_build_order_step(window, aoe2_civilization_icon)

\* click on 'Format', which can be clicked only while it is shown
ClickFormat ==
    /\ window.format_bo_button
    /\ window' = format_build_order(window, aoe2_civilization_icon)

\* the editor handlers leave everything but the window alone
WindowOnly ==
    UNCHANGED <<data, bo_name_msg, aoe2_civilization_icon, result, prev, calls,
                data_at_call, edits, timing, time_offset, generated, overlay,
                handled, displayed, objects, assigned>>

NextEditor ==
    \/ TextChanged /\ WindowOnly
    \/ ClickReset /\ WindowOnly
    \/ ClickAddStep /\ WindowOnly
    \/ ClickFormat /\ WindowOnly

InitEditor ==
    /\ data = PyNone
    /\ bo_name_msg = FALSE
    /\ aoe2_civilization_icon \in IconTables
    /\ result = [kind |-> "none"]
    /\ prev = [kind |-> "none"]
    /\ calls = 0
    /\ data_at_call = PyNone
    /\ edits = 0
    /\ timing = [kind |-> "none"]
    /\ time_offset = 0
    /\ window = BuildOrderWindow
    /\ generated = [kind |-> "none"]
    /\ overlay = NoOverlay
    /\ handled = [handler |-> "none"]
    /\ displayed = [kind |-> "none"]
    /\ objects = <<>>
    /\ assigned = [kind |-> "none"]

SpecEditor == InitEditor /\ [][NextEditor]_vars

(***************************************************************************)
(* Timing: the document is edited, then handed to the timing evaluator     *)
(* (no edit of the text follows the evaluation, its result goes to the     *)
(* display).                                                               *)
(***************************************************************************)
\* a hand-written opening whose steps train 0, 1 and 4 villagers
Opening ==
    PyDict(<< <<"name", PyStr("Opening")>>,
              <<"civilization", PyStr("Any")>>,
              <<"build_order", PyList(<<
                  DefaultStep,
                  SetKey(DefaultStep, "villager_count", PyInt(1)),
                  SetKey(DefaultStep, "villager_count", PyInt(4)) >>)>> >>)

TimingDocuments == {Template, TwoSteps, Opening}

\* the time_offset arguments tried
TimeOffsets == {0, 30}

\* the rendering of a fractional number of seconds is left to
\* build_order_time_to_str; the model covers the whole numbers
WholeSeconds(d) ==
    \A k \in 1..Len(Steps(d)) :
        ~(Steps(d)[k].t = "dict" /\ HasKey(Steps(d)[k], "villager_count")
          /\ Lookup(Steps(d)[k], "villager_count").t = "float")

\* evaluate_aoe2_build_order_timing(data, time_offset=offset); calls counts
\* the consecutive calls made on this document with this offset
EvaluateTiming ==
    \E offset \in TimeOffsets :
        LET call == evaluate_aoe2_build_order_timing(data, offset)
            again == timing.kind # "none" /\ offset = time_offset
        IN  /\ WholeSeconds(data)
            /\ timing' = call.outcome
            /\ time_offset' = offset
            /\ calls' = IF again THEN 2 ELSE 1
            /\ data_at_call' = data
            /\ data' = call.data
            /\ UNCHANGED <<bo_name_msg, aoe2_civilization_icon, result, prev,
                           edits, window, generated, overlay, handled,
                           displayed, objects, assigned>>

InitTiming ==
    /\ data \in TimingDocuments
    /\ bo_name_msg = FALSE
    /\ aoe2_civilization_icon = {"Britons", "Franks"}
    /\ result = [kind |-> "none"]
    /\ prev = [kind |-> "none"]
    /\ calls = 0
    /\ data_at_call = PyNone
    /\ edits = 0
    /\ timing = [kind |-> "none"]
    /\ time_offset = 0
    /\ window = BuildOrderWindow
    /\ generated = [kind |-> "none"]
    /\ overlay = NoOverlay
    /\ handled = [handler |-> "none"]
    /\ displayed = [kind |-> "none"]
    /\ objects = <<>>
    /\ assigned = [kind |-> "none"]

\* no call of the timing evaluator was made yet
Untimed == timing.kind = "none"

NextTiming ==
    \/ Untimed /\ ReplaceDocument
    \/ Untimed /\ SetName
    \/ Untimed /\ SetCivilization
    \/ Untimed /\ SetBuildOrder
    \/ Untimed /\ DeleteField
    \/ Untimed /\ AppendStep
    \/ Untimed /\ ReplaceStep
    \/ Untimed /\ SetStepField
    \/ Untimed /\ DeleteStepField
    \/ Untimed /\ SetResource
    \/ Untimed /\ DeleteResource
    \/ EvaluateTiming

SpecTiming == InitTiming /\ [][NextTiming]_vars


(***************************************************************************)
(* Documents that already carry a fault when the user edits them: one more *)
(* edit gives the validator two violations to choose from.                 *)
(***************************************************************************)
\* the last check of the last step fails: a note that is a number
FaultyLastNote ==
    WithStep(TwoSteps, 2,
             SetKey(Steps(TwoSteps)[2], "notes", PyList(<<PyStr("Wall"), PyInt(1)>>)))

\* the first step has an age above 4
FaultyFirstAge == WithStep(TwoSteps, 1, SetKey(Steps(TwoSteps)[1], "age", PyInt(5)))

\* an unknown civilization, and a stone amount below -1 in the second step
FaultyCivilizationAndStone ==
    SetKey(WithStep(TwoSteps, 2,
                    SetKey(Steps(TwoSteps)[2], "resources",
                           SetKey(Lookup(Steps(TwoSteps)[2], "resources"),
                                  "stone", PyInt(-2)))),
           "civilization", PyStr("Atlantis"))

FaultyDocuments == {FaultyLastNote, FaultyFirstAge, FaultyCivilizationAndStone}

InitFaulty ==
    /\ data \in FaultyDocuments
    /\ bo_name_msg = FALSE
    /\ aoe2_civilization_icon = {"Britons", "Franks"}
    /\ result = [kind |-> "none"]
    /\ prev = [kind |-> "none"]
    /\ calls = 0
    /\ data_at_call = PyNone
    /\ edits = 0
    /\ timing = [kind |-> "none"]
    /\ time_offset = 0
    /\ window = BuildOrderWindow
    /\ generated = [kind |-> "none"]
    /\ overlay = NoOverlay
    /\ handled = [handler |-> "none"]
    /\ displayed = [kind |-> "none"]
    /\ objects = <<>>
    /\ assigned = [kind |-> "none"]

SpecFaulty == InitFaulty /\ [][Next]_vars

(***************************************************************************)
(* The game overlays (AoE2GameOverlay, AoE4GameOverlay) and their request  *)
(* threads.  The handlers run on the thread of the event loop, one at a    *)
(* time; a request thread ends by appending its one result to the list it  *)
(* was given.  A result carries, for the properties only, the username it  *)
(* was searched for and whether the overlay was reloaded since its launch. *)
(***************************************************************************)
\* the most game-parameters requests kept in flight or deposited at a time
MaxParameterThreads == 2

\* the usernames typed in the search field, the match ids of the server and
\* the game parameters it serves
Usernames == {PyStr("alice"), PyStr("bob")}
MatchIds == {PyInt(1), PyInt(2)}
GameParameters == [t |-> "parameters"]

\* get_match_data_threading(store_match_data, search_input=selected_username,
\* last_match_id=...): one more thread on its way
MatchDataThread(o, last_match_id) ==
    [search_input |-> o.selected_username, last_match_id |-> last_match_id,
     reloaded |-> FALSE]

\* what the thread can append to store_match_data when it ends: None, a
\* result without match (match_id None, with warnings) or a match
MatchDataResults(thread) ==
    {PyNone}
    \cup {[match_id |-> PyNone, warnings |-> <<"No match found">>,
           search_input |-> thread.search_input, reloaded |-> thread.reloaded]}
    \cup {[match_id |-> id, warnings |-> <<>>,
           search_input |-> thread.search_input, reloaded |-> thread.reloaded] :
             id \in MatchIds}

\* self.match_data_thread_id = get_match_data_threading(...);
\* self.match_data_thread_started = True
get_match_data_threading(o, last_match_id) ==
    [o EXCEPT !.match_data_threads = Append(@, MatchDataThread(o, last_match_id)),
              !.match_data_thread_started = TRUE]

\* get_aoe2_parameters_threading(self.store_game_parameters, ...)
get_aoe2_parameters_threading(o) ==
    [o EXCEPT !.game_parameters_threads = @ + 1]

\* AoE2: 'if len(self.store_game_parameters) == 0' around the launch
\* (lines 50-51, 88-89)
ParametersRequested(o) ==
    IF o.game_parameters # PyNone THEN o
    ELSE IF Len(o.store_game_parameters) = 0 THEN get_aoe2_parameters_threading(o)
    ELSE o

\* the match data attributes of both constructors (AoE2 lines 54-65, AoE4
\* lines 125-136), valid saying whether the first search can be launched
MatchDataInit(o, valid) ==
    LET fresh == [o EXCEPT !.match_data_thread_started = FALSE,
                           !.store_match_data = <<>>,
                           !.match_data = PyNone,
                           !.match_data_warnings = <<>>,
                           !.match_data_threads = <<>>]
    IN  IF valid THEN get_match_data_threading(fresh, PyNone) ELSE fresh

\* the attributes before the constructor body runs; selected_username comes
\* from the settings read by the base class
OverlayAttributes(game, username) ==
    [game |-> game, selected_username |-> username,
     game_parameters |-> PyNone, store_game_parameters |-> <<>>,
     game_parameters_threads |-> 0,
     match_data_thread_started |-> FALSE, store_match_data |-> <<>>,
     match_data |-> PyNone, match_data_warnings |-> <<>>,
     match_data_threads |-> <<>>]

\* AoE2GameOverlay.__init__ (lines 41-65), parameters being what
\* get_aoe2_parameters answered
AoE2GameOverlay(parameters, username) ==
    LET o == ParametersRequested(
                 [OverlayAttributes("aoe2", username)
                     EXCEPT !.game_parameters = parameters])
    IN  MatchDataInit(o, o.game_parameters # PyNone /\ o.selected_username # PyNone)

\* AoE4GameOverlay.__init__ (lines 124-136)
AoE4GameOverlay(username) ==
    MatchDataInit(OverlayAttributes("aoe4", username), username # PyNone)

\* variant: a deposited result is stored whether it holds a match or not
MatchDataConsumed_AnyResult(o) ==
    IF Len(o.store_match_data) >= 1
    THEN [o EXCEPT !.match_data = o.store_match_data[1],
                   !.store_match_data = <<>>]
    ELSE o

\* lines 422-428 (AoE2), 580-586 (AoE4): the first deposited result is taken
\* and the list is cleared
MatchDataConsumed(o) ==
    IF Len(o.store_match_data) >= 1
    THEN LET first == o.store_match_data[1]
         IN  [o EXCEPT
                !.match_data =
                    IF first = PyNone THEN @
                    ELSE IF first.match_id # PyNone THEN first ELSE @,
                !.match_data_warnings =
                    IF first = PyNone THEN @
                    ELSE IF first.match_id # PyNone THEN @
                    ELSE IF o.match_data = PyNone THEN first.warnings ELSE @,
                !.store_match_data = <<>>]
    ELSE o

\* lines 431-443 (AoE2), 589-599 (AoE4): the new search, told the match
\* already held
MatchDataSearched(o) ==
    IF o.match_data = PyNone THEN get_match_data_threading(o, PyNone)
    ELSE get_match_data_threading(o, o.match_data.match_id)

\* variant: no test before a new search is launched
MatchDataFetched_Unguarded(o) == MatchDataSearched(MatchDataConsumed(o))

\* lines 419-443 (AoE2), 577-599 (AoE4)
MatchDataFetched(o) ==
    IF ~o.match_data_thread_started \/ Len(o.store_match_data) >= 1
    THEN MatchDataSearched(MatchDataConsumed(o))
    ELSE o

\* AoE2 lines 444-454: retry to load the game parameters
ParametersRetried(o) ==
    IF Len(o.store_game_parameters) >= 1
    THEN LET taken == [o EXCEPT !.game_parameters = o.store_game_parameters[1],
                                !.store_game_parameters = <<>>]
         IN  IF taken.game_parameters # PyNone THEN taken
             ELSE get_aoe2_parameters_threading(taken)
    ELSE o

\* fetch_game_match_data of the overlay's class
fetch_game_match_data(o) ==
    IF o.game = "aoe4"
    THEN IF o.selected_username # PyNone THEN MatchDataFetched(o) ELSE o
    ELSE IF o.game_parameters # PyNone /\ o.selected_username # PyNone
         THEN MatchDataFetched(o)
         ELSE IF o.game_parameters = PyNone THEN ParametersRetried(o)
         ELSE o

\* the threads still running, and the results not yet consumed, were asked
\* for before this reload
Outdated(o) ==
    [o EXCEPT
       !.match_data_threads = [k \in 1..Len(@) |-> [@[k] EXCEPT !.reloaded = TRUE]],
       !.store_match_data = [k \in 1..Len(@) |->
                                IF @[k] = PyNone THEN @[k]
                                ELSE [@[k] EXCEPT !.reloaded = TRUE]]]

\* reload (AoE2 lines 78-91, AoE4 lines 160-165), parameters being what
\* get_aoe2_parameters answered
reload(o, parameters) ==
    LET cleared == [Outdated(o) EXCEPT !.match_data = PyNone,
                                       !.match_data_warnings = <<>>]
    IN  IF o.game = "aoe4" THEN cleared
        ELSE ParametersRequested([cleared EXCEPT !.game_parameters = parameters])

\* enter_key_actions with the focus on the username field (AoE2 lines
\* 742-744, AoE4 lines 907-909): select_username, then fetch_game_match_data
enter_key_actions(o, username) ==
    fetch_game_match_data([o EXCEPT !.selected_username = username])

\* a handler ran: the overlay it leaves, and what it found
Handles(handler, after) ==
    /\ overlay' = after
    /\ handled' = [handler |-> handler, before |-> overlay]
    /\ UNCHANGED <<data, bo_name_msg, aoe2_civilization_icon, result, prev, calls,
                   data_at_call, edits, timing, time_offset, window, generated,
                   displayed, objects, assigned>>

\* the timer of the main program fires (stop_application is not set)
TimerMatchData ==
    Handles("timer_match_data_call", fetch_game_match_data(overlay))

\* Enter in the username field: an empty field selects no username
EnterKey ==
    \E username \in Usernames \cup {PyNone} :
        Handles("enter_key_actions", enter_key_actions(overlay, username))

\* the reload button; requests in flight are capped for the model
Reload ==
    \E parameters \in {PyNone, GameParameters} :
        /\ overlay.game_parameters_threads + Len(overlay.store_game_parameters)
             < MaxParameterThreads
        /\ Handles("reload", reload(overlay, parameters))

\* a match-data thread ends: its result is appended to store_match_data
MatchDataThreadEnds ==
    \E k \in 1..Len(overlay.match_data_threads) :
        \E found \in MatchDataResults(overlay.match_data_threads[k]) :
            Handles("match data thread",
                    [overlay EXCEPT
                       !.store_match_data = Append(@, found),
                       !.match_data_threads =
                           SubSeq(@, 1, k - 1) \o SubSeq(@, k + 1, Len(@))])

\* a game-parameters thread ends: its result is appended to
\* store_game_parameters
ParametersThreadEnds ==
    \E found \in {PyNone, GameParameters} :
        /\ overlay.game_parameters_threads >= 1
        /\ Handles("game parameters thread",
                   [overlay EXCEPT !.store_game_parameters = Append(@, found),
                                   !.game_parameters_threads = @ - 1])

InitOverlay ==
    /\ data = PyNone
    /\ bo_name_msg = FALSE
    /\ aoe2_civilization_icon = {"Britons", "Franks"}
    /\ result = [kind |-> "none"]
    /\ prev = [kind |-> "none"]
    /\ calls = 0
    /\ data_at_call = PyNone
    /\ edits = 0
    /\ timing = [kind |-> "none"]
    /\ time_offset = 0
    /\ window = BuildOrderWindow
    /\ generated = [kind |-> "none"]
    /\ overlay \in {AoE2GameOverlay(parameters, username) :
                       parameters \in {PyNone, GameParameters},
                       username \in Usernames \cup {PyNone}}
                   \cup {AoE4GameOverlay(username) : username \in Usernames \cup {PyNone}}
    /\ handled = [handler |-> "__init__"]
    /\ displayed = [kind |-> "none"]
    /\ objects = <<>>
    /\ assigned = [kind |-> "none"]

NextOverlay ==
    \/ TimerMatchData
    \/ EnterKey
    \/ Reload
    \/ MatchDataThreadEnds
    \/ ParametersThreadEnds

SpecOverlay == InitOverlay /\ [][NextOverlay]_vars

(***************************************************************************)
(* The build order panel of the AoE2 overlay.                              *)
(***************************************************************************)
\* the path settings.images holds for a picture, and the blanks of
\* layout.build_order.resource_spacing
Image(name) == "<" \o name \o ">"
Spacing == " "

\* an evaluation as a statement: it raises or goes on
Need(outcome) == IF outcome.kind = "raise" THEN outcome ELSE Fall

\* target >= 0
NotNegative(target) ==
    CASE target.t \in {"int", "bool"} -> Val(IntOf(target) >= 0)
      [] target.t = "float" -> Val(SubSeq(target.f, 1, 1) # "-")
      [] OTHER ->
            Raise("TypeError", "'>=' not supported between instances of '"
                               \o TypeName(target) \o "' and 'int'")

\* str(target) if (target >= 0) else ' '
ShownAmount(target) ==
    LET shown == NotNegative(target)
    IN  IF shown.kind = "raise" THEN shown
        ELSE Val(IF shown.v THEN Format(target) ELSE " ")

\* get_age_image (lines 162-182): == never fails, True and 1.0 equal 1
get_age_image(age_id) ==
    LET Is(n) == \/ age_id.t \in {"int", "bool"} /\ IntOf(age_id) = n
                 \/ age_id.t = "float" /\ age_id.f = ToString(n) \o ".0"
    IN  IF Is(1) THEN Image("age_1")
        ELSE IF Is(2) THEN Image("age_2")
        ELSE IF Is(3) THEN Image("age_3")
        ELSE IF Is(4) THEN Image("age_4")
        ELSE Image("age_unknown")

\* the panel after a call that came back
Shown(resources_line, notes) ==
    [kind |-> "shown", build_order_resources |-> resources_line,
     build_order_notes |-> notes]

\* update_build_order with a build order selected (lines 308-351), step_id
\* being selected_build_order_step_id + 1
update_build_order(selected_build_order, step_id) ==
    LET selected_step == Lookup(selected_build_order, "build_order").l[step_id]
        target_resources == Lookup(selected_step, "resources")
        Target(field) == Lookup(target_resources, field)
        target_villager == Lookup(selected_step, "villager_count")
        Amount(target) == ShownAmount(target).v
        failure ==
            Then(Need(GetItem(selected_step, "resources")),
            Then(Need(GetItem(target_resources, "wood")),
            Then(Need(GetItem(target_resources, "food")),
            Then(Need(GetItem(target_resources, "gold")),
            Then(Need(GetItem(target_resources, "stone")),
            Then(Need(GetItem(selected_step, "villager_count")),
            Then(Need(ShownAmount(Target("wood"))),
            Then(Need(ShownAmount(Target("food"))),
            Then(Need(ShownAmount(Target("gold"))),
            Then(Need(ShownAmount(Target("stone"))),
            Then(Need(ShownAmount(target_villager)),
            Then(Need(GetItem(selected_step, "age")),
            Then(Need(GetItem(selected_step, "notes")),
                 Need(Iterate(Lookup(selected_step, "notes"))))))))))))))))
    IN  IF failure.kind = "raise" THEN failure
        ELSE Shown(Image("wood") \o "@ " \o Amount(Target("wood"))
                   \o Spacing \o "@" \o Image("food") \o "@ " \o Amount(Target("food"))
                   \o Spacing \o "@" \o Image("gold") \o "@ " \o Amount(Target("gold"))
                   \o Spacing \o "@" \o Image("stone") \o "@ " \o Amount(Target("stone"))
                   \o Spacing \o "@" \o Image("villager") \o "@ " \o Amount(target_villager)
                   \o Spacing \o "@" \o get_age_image(Lookup(selected_step, "age")),
                   Iterate(Lookup(selected_step, "notes")).v)

\* nothing was displayed yet
Undisplayed == displayed.kind = "none"

\* the overlay shows a step of a build order that
\* check_valid_aoe2_build_order accepted
DisplayStep ==
    \E step_id \in 1..Len(Steps(data)) :
        /\ check_valid_aoe2_build_order(data, TRUE, aoe2_civilization_icon).ok
        /\ displayed' = [kind |-> "called", selected_build_order |-> data,
                         selected_build_order_step_id |-> step_id - 1,
                         outcome |-> update_build_order(data, step_id)]
        /\ UNCHANGED <<data, bo_name_msg, aoe2_civilization_icon, result, prev, calls,
                       data_at_call, edits, timing, time_offset, window, generated,
                       overlay, handled, objects, assigned>>

NextDisplay ==
    \/ Undisplayed /\ ReplaceDocument
    \/ Undisplayed /\ SetName
    \/ Undisplayed /\ SetCivilization
    \/ Undisplayed /\ SetBuildOrder
    \/ Undisplayed /\ DeleteField
    \/ Undisplayed /\ AppendStep
    \/ Undisplayed /\ ReplaceStep
    \/ Undisplayed /\ SetStepField
    \/ Undisplayed /\ DeleteStepField
    \/ Undisplayed /\ SetResource
    \/ Undisplayed /\ DeleteResource
    \/ DisplayStep

SpecDisplay == Init /\ [][NextDisplay]_vars

(***************************************************************************)
(* Objects shared between steps.  A mapping written in place in a document *)
(* belongs to that place alone; a mapping reached from two places is kept  *)
(* in objects and the places hold a reference to it.                       *)
(***************************************************************************)
\* the reference to objects[n]
Ref(n) == [t |-> "ref", id |-> n]

\* the value held: the object when v is a reference
Referenced(v, objs) == IF v.t = "ref" THEN objs[v.id] ELSE v

\* the step with its resources by value
StepResolved(step, objs) ==
    IF step.t = "dict" /\ HasKey(step, "resources")
    THEN SetKey(step, "resources", Referenced(Lookup(step, "resources"), objs))
    ELSE step

\* the document with the resources of every step by value
Resolved(d, objs) ==
    SetKey(d, "build_order",
           PyList([k \in 1..Len(Steps(d)) |-> StepResolved(Steps(d)[k], objs)]))

\* the resources of the step are an object not yet kept in objects
OwnResources(step) ==
    step.t = "dict" /\ HasKey(step, "resources") /\ Lookup(step, "resources").t # "ref"

\* build_order.append(get_aoe2_build_order_step(build_order)): the value of
\* data['resources'] handed back by line 145 is the object the last step
\* holds, which is given its identity before the call
AppendDerivedStep ==
    /\ assigned.kind = "none"
    /\ Len(Steps(data)) >= 1
    /\ Len(Steps(data)) < MaxSteps
    /\ LET n == Len(Steps(data))
           last == Steps(data)[n]
           held == IF OwnResources(last)
                   THEN [Steps(data) EXCEPT
                           ![n] = SetKey(last, "resources", Ref(Len(objects) + 1))]
                   ELSE Steps(data)
           step == get_aoe2_build_order_step(PyList(held))
       IN  /\ step.kind = "value"
           /\ objects' = IF OwnResources(last)
                         THEN Append(objects, Lookup(last, "resources"))
                         ELSE objects
           /\ data' = SetKey(data, "build_order", PyList(Append(held, step.v)))
    /\ UNCHANGED <<bo_name_msg, aoe2_civilization_icon, result, prev, calls,
                   data_at_call, edits, timing, time_offset, window, generated,
                   overlay, handled, displayed, assigned>>

\* the amounts assigned to a resource
AssignedAmounts == {PyInt(5), PyInt(-1)}

\* build_order[k]['resources'][field] = amount, the one assignment followed
AssignResource ==
    \E k \in 1..Len(Steps(data)) : \E field \in ResourceFields :
      \E amount \in AssignedAmounts :
        LET step == Steps(data)[k]
        IN  /\ assigned.kind = "none"
            /\ step.t = "dict"
            /\ HasKey(step, "resources")
            /\ Referenced(Lookup(step, "resources"), objects).t = "dict"
            /\ assigned' = [kind |-> "resource", step_id |-> k, field |-> field,
                            before |-> Resolved(data, objects)]
            /\ IF Lookup(step, "resources").t = "ref"
               THEN /\ objects' = [objects EXCEPT
                                     ![Lookup(step, "resources").id] =
                                         SetKey(@, field, amount)]
                    /\ data' = data
               ELSE /\ data' = WithStep(data, k,
                                 SetKey(step, "resources",
                                        SetKey(Lookup(step, "resources"), field, amount)))
                    /\ objects' = objects
            /\ UNCHANGED <<bo_name_msg, aoe2_civilization_icon, result, prev, calls,
                           data_at_call, edits, timing, time_offset, window,
                           generated, overlay, handled, displayed>>

\* no step was derived and nothing assigned yet
Unshared == objects = <<>> /\ assigned.kind = "none"

NextSharing ==
    \/ Unshared /\ ReplaceDocument
    \/ Unshared /\ SetName
    \/ Unshared /\ SetCivilization
    \/ Unshared /\ SetBuildOrder
    \/ Unshared /\ DeleteField
    \/ Unshared /\ AppendStep
    \/ Unshared /\ ReplaceStep
    \/ Unshared /\ SetStepField
    \/ Unshared /\ DeleteStepField
    \/ Unshared /\ SetResource
    \/ Unshared /\ DeleteResource
    \/ AppendDerivedStep
    \/ AssignResource

SpecSharing == Init /\ [][NextSharing]_vars

(***************************************************************************)
(* Vocabulary of the properties.  These describe documents in the words of *)
(* the specification; none of them is used by the model of the code above. *)
(***************************************************************************)
Called == calls > 0

CoreResources == {"wood", "food", "gold", "stone"}

\* the message prefix the caller expects for a document that has a name
ClaimPrefix(d, flag) == IF flag THEN Format(Lookup(d, "name")) \o " | " ELSE ""

\* a known faction or a wildcard token
ClaimKnownCivilization(civ, table) ==
    civ.t = "str" /\ (civ.s \in table \/ civ.s \in {"Any", "any"})

\* a step with villager_count, age, resources and notes of the stated types
ClaimStepAsStated(step) ==
    /\ step.t = "dict"
    /\ \A field \in StepFields : HasKey(step, field)
    /\ Lookup(step, "villager_count").t = "int"
    /\ Lookup(step, "age").t = "int"
    /\ Lookup(step, "age").i <= 4
    /\ Lookup(step, "resources").t = "dict"
    /\ \A field \in CoreResources :
          /\ HasKey(Lookup(step, "resources"), field)
          /\ is_valid_resource(Lookup(Lookup(step, "resources"), field))
    /\ Lookup(step, "notes").t = "list"
    /\ \A k \in 1..Len(Lookup(step, "notes").l) : Lookup(step, "notes").l[k].t = "str"

\* the optional builder count, when present, is a valid resource
ClaimBuilderValid(step) ==
    HasKey(Lookup(step, "resources"), "builder")
        => is_valid_resource(Lookup(Lookup(step, "resources"), "builder"))

\* name, build_order and an acceptable civilization (or none)
ClaimHeaderAsStated(d, table) ==
    /\ d.t = "dict"
    /\ HasKey(d, "name")
    /\ HasKey(d, "build_order")
    /\ Lookup(d, "build_order").t = "list"
    /\ HasKey(d, "civilization") => ClaimKnownCivilization(Lookup(d, "civilization"), table)

\* the documents C1 speaks of, as C1 words them
ClaimDocumentAsStated(d, table) ==
    /\ ClaimHeaderAsStated(d, table)
    /\ Len(Steps(d)) >= 1
    /\ \A k \in 1..Len(Steps(d)) : ClaimStepAsStated(Steps(d)[k])

\* ... and with every builder count present valid
ClaimWellFormed(d, table) ==
    /\ ClaimDocumentAsStated(d, table)
    /\ \A k \in 1..Len(Steps(d)) : ClaimBuilderValid(Steps(d)[k])

\* C1 as stated: every document with a name, at least one step and well
\* typed villager_count, age, wood/food/gold/stone and notes in every step
\* is accepted with (True, '').
C1_AsStated ==
    (Called /\ ClaimDocumentAsStated(data_at_call, aoe2_civilization_icon))
        => result = Return(TRUE, "")

\* C1 (amended): every such document in which each builder count that is
\* present is a valid resource too is accepted with (True, ''), whatever
\* bo_name_msg.
C1_ValidAccepted ==
    (Called /\ ClaimWellFormed(data_at_call, aoe2_civilization_icon))
        => result = Return(TRUE, "")

C1_Witness ==
    /\ Called
    /\ ClaimWellFormed(data_at_call, aoe2_civilization_icon)
    /\ HasKey(data_at_call, "civilization")
    /\ \E k \in 1..Len(Steps(data_at_call)) :
          HasKey(Lookup(Steps(data_at_call)[k], "resources"), "builder")
    /\ bo_name_msg
    /\ result.ok

\* C2: every call hands back a pair: (False, message) with a string
\* message, or (True, ''); no exception leaves the function.
C2_NeverRaises ==
    Called =>
        /\ result.kind = "return"
        /\ result.ok \in BOOLEAN
        /\ result.msg \in STRING
        /\ result.ok => result.msg = ""

C2_Witness ==
    /\ Called
    /\ data_at_call.t = "dict"
    /\ Len(Steps(data_at_call)) = 2
    /\ Steps(data_at_call)[2].t = "int"
    /\ result.kind = "return"
    /\ ~result.ok

\* a value of the right type for a required field
ClaimFieldValue(field) ==
    CASE field = "villager_count" -> PyInt(1)
      [] field = "age" -> PyInt(1)
      [] field = "resources" -> Lookup(DefaultStep, "resources")
      [] field = "notes" -> PyList(<<>>)
      [] OTHER -> PyInt(0)

\* the step lacks the field (a step field, or a core resource)
ClaimStepLacks(step, field) ==
    /\ step.t = "dict"
    /\ IF field \in StepFields THEN ~HasKey(step, field)
       ELSE HasResources(step) /\ ~HasKey(Lookup(step, "resources"), field)

\* the step with the field put back
ClaimStepRestored(step, field) ==
    IF field \in StepFields THEN SetKey(step, field, ClaimFieldValue(field))
    ELSE SetKey(step, "resources",
                SetKey(Lookup(step, "resources"), field, ClaimFieldValue(field)))

\* the field is missing from step k (position in the list, from 1) and that
\* is the only thing wrong with the document
ClaimOnlyMissing(d, k, field, table) ==
    /\ ClaimStepLacks(Steps(d)[k], field)
    /\ ClaimWellFormed(WithStep(d, k, ClaimStepRestored(Steps(d)[k], field)), table)

ClaimMissingText(field) ==
    IF field \in StepFields THEN " is missing the '" \o field \o "' field."
    ELSE " is missing the '" \o field \o "' field in 'resources'."

\* C3 as stated: when one required field is missing from the step at
\* 0-based index i, the message names the field and the step as 'Step i+1'.
C3_AsStated ==
    Called =>
        \A k \in 1..Len(Steps(data_at_call)) : \A field \in StepFields \cup CoreResources :
            ClaimOnlyMissing(data_at_call, k, field, aoe2_civilization_icon)
                => /\ ~result.ok
                   /\ Contains(result.msg, "'" \o field \o "'")
                   /\ Contains(result.msg, "Step " \o ToString(k))

\* C3 (amended): when one required field is missing from the step at
\* 0-based index i of an otherwise valid document, the call returns False
\* with the message "<prefix>Step i is missing the '<field>' field." (for a
\* core resource: "... field in 'resources'."): the step is named by its
\* 0-based index.
C3_MissingFieldNamed ==
    Called =>
        \A k \in 1..Len(Steps(data_at_call)) : \A field \in StepFields \cup CoreResources :
            ClaimOnlyMissing(data_at_call, k, field, aoe2_civilization_icon)
                => result = Return(FALSE, ClaimPrefix(data_at_call, bo_name_msg)
                                          \o "Step " \o ToString(k - 1)
                                          \o ClaimMissingText(field))

C3_Witness ==
    /\ Called
    /\ Len(Steps(data_at_call)) = 2
    /\ ClaimOnlyMissing(data_at_call, 2, "gold", aoe2_civilization_icon)
    /\ ~result.ok

\* name, build_order and civilization are in order and the first step has
\* villager_count, age and resources but no notes
ClaimFirstStepLacksNotes(d, table) ==
    /\ ClaimHeaderAsStated(d, table)
    /\ Len(Steps(d)) >= 1
    /\ Steps(d)[1].t = "dict"
    /\ \A field \in StepFields \ {"notes"} : HasKey(Steps(d)[1], field)
    /\ ~HasKey(Steps(d)[1], "notes")

\* C4: with bo_name_msg false, a document whose first step lacks notes is
\* answered exactly (False, "Step 0 is missing the 'notes' field.").
C4_StepZeroLiteral ==
    (Called /\ ~bo_name_msg /\ ClaimFirstStepLacksNotes(data_at_call, aoe2_civilization_icon))
        => result = Return(FALSE, "Step 0 is missing the 'notes' field.")

C4_Witness ==
    /\ Called
    /\ ~bo_name_msg
    /\ ClaimFirstStepLacksNotes(data_at_call, aoe2_civilization_icon)
    /\ result.kind = "return"

\* msg with the leading prefix taken off
ClaimStripped(msg, prefix) == SubSeq(msg, Len(prefix) + 1, Len(msg))

\* the prefix a returned pair carries: none on success
ClaimPrefixOf(res, d, flag) == IF res.ok THEN "" ELSE ClaimPrefix(d, flag)

ClaimAgeReached(d, k, table) ==
    /\ ClaimHeaderAsStated(d, table)
    /\ \A j \in 1..(k - 1) : ClaimStepAsStated(Steps(d)[j]) /\ ClaimBuilderValid(Steps(d)[j])
    /\ Steps(d)[k].t = "dict"
    /\ \A field \in StepFields : HasKey(Steps(d)[k], field)
    /\ IsInstanceInt(Lookup(Steps(d)[k], "villager_count"))

\* not an integer (in the sense of isinstance(age, int), which takes the
\* JSON booleans for the integers 1 and 0), or greater than 4
ClaimAgeRejected(age) == (age.t \notin {"int", "bool"}) \/ IntOf(age) > 4

ClaimAgeText(k, age) ==
    "Step " \o ToString(k - 1) \o " has invalid age number (" \o Format(age)
        \o ") (max: 4 for Imperial)."

ClaimEmptyCivilization(d) ==
    d.t = "dict" /\ HasKey(d, "civilization") /\ Lookup(d, "civilization") = PyList(<<>>)

ClaimCivilizationRejected(civ, table) ==
    IF civ.t = "list"
    THEN Len(civ.l) = 0 \/ \E k \in 1..Len(civ.l) : ~ClaimKnownCivilization(civ.l[k], table)
    ELSE ~ClaimKnownCivilization(civ, table)

\* the pairs by which the civilization check can fail
ClaimCivilizationFailures(civ, prefix) ==
    LET named == IF civ.t = "list" THEN {civ.l[k] : k \in 1..Len(civ.l)} ELSE {civ}
    IN  {Return(FALSE, prefix \o "Valid civilization list is empty.")}
        \cup {Return(FALSE, prefix \o "Unknown civilization '" \o Format(x)
                            \o "' (check spelling).") : x \in named}
        \cup {Return(FALSE, prefix \o "unhashable type: '" \o typ \o "'") :
                typ \in {"list", "dict"}}

\* C8: the civilization check fails exactly when civilization is an empty
\* list, a list with an element that is neither a faction of the table nor
\* 'Any'/'any', or such a scalar; 'Any' and 'any' never fail, whatever the
\* table holds.
C8_CivilizationCheck ==
    ( /\ Called
      /\ data_at_call.t = "dict"
      /\ HasKey(data_at_call, "name")
      /\ HasKey(data_at_call, "build_order") ) =>
        IF HasKey(data_at_call, "civilization")
        THEN LET civ == Lookup(data_at_call, "civilization")
             IN  ClaimCivilizationRejected(civ, aoe2_civilization_icon)
                 <=> result \in ClaimCivilizationFailures(
                                    civ, ClaimPrefix(data_at_call, bo_name_msg))
        ELSE ~Contains(result.msg, "ivilization")

C8_Witness ==
    /\ Called
    /\ data_at_call.t = "dict"
    /\ HasKey(data_at_call, "civilization")
    /\ Lookup(data_at_call, "civilization") = PyList(<<PyStr("Britons"), PyStr("any")>>)
    /\ HasKey(data_at_call, "name")
    /\ result.ok

TimingReturned == timing.kind = "returned"

\* "minutes:seconds", the seconds on two digits
ClaimClock(total) ==
    LET minutes == CHOOSE m \in 0..total : 60 * m <= total /\ total < 60 * (m + 1)
        seconds == total - 60 * minutes
    IN  ToString(minutes) \o ":" \o ToString(seconds \div 10) \o ToString(seconds % 10)

\* the villager_count of step k as a number
ClaimVillagers(d, k) == IntOf(Lookup(Steps(d)[k], "villager_count"))

\* the time field of step k
ClaimTime(d, k) == Lookup(Steps(d)[k], "time")

\* C11: after evaluate_aoe2_build_order_timing(data, time_offset) came back on
\* a document with a build_order, every step's time is the minutes:seconds
\* rendering of 25 times that step's own villager_count plus time_offset,
\* whatever the steps before it hold; (0,0) gives 0:00, (4,0) gives 1:40 and
\* (1,30) gives 0:55.
C11_TimePerStep ==
    (TimingReturned /\ timing.printed = "") =>
        \A k \in 1..Len(Steps(data)) :
            /\ HasKey(Steps(data)[k], "time")
            /\ ClaimTime(data, k)
                 = PyStr(ClaimClock(25 * ClaimVillagers(data_at_call, k) + time_offset))
            /\ (ClaimVillagers(data, k) = 0 /\ time_offset = 0)
                 => ClaimTime(data, k) = PyStr("0:00")
            /\ (ClaimVillagers(data, k) = 4 /\ time_offset = 0)
                 => ClaimTime(data, k) = PyStr("1:40")
            /\ (ClaimVillagers(data, k) = 1 /\ time_offset = 30)
                 => ClaimTime(data, k) = PyStr("0:55")

\* the opening was timed with offset 0: its steps of 0, 1 and 4 villagers show
\* 0:00, 0:25 and 1:40
C11_Witness ==
    /\ TimingReturned
    /\ time_offset = 0
    /\ data_at_call = Opening
    /\ [k \in 1..Len(Steps(data)) |-> ClaimTime(data, k)]
         = <<PyStr("0:00"), PyStr("0:25"), PyStr("1:40")>>

\* the timing evaluator was called on a mapping without build_order
ClaimTimedWithoutBuildOrder ==
    /\ timing.kind # "none"
    /\ data_at_call.t = "dict"
    /\ ~HasKey(data_at_call, "build_order")

\* C12: called on a document without build_order field,
\* evaluate_aoe2_build_order_timing comes back without failure and the
\* document is what it was before the call.
C12_NoBuildOrderNoChange ==
    ClaimTimedWithoutBuildOrder => (TimingReturned /\ data = data_at_call)

\* the build_order of the two-step document was deleted, the evaluator was
\* called and printed its warning
C12_Witness ==
    /\ ClaimTimedWithoutBuildOrder
    /\ TimingReturned
    /\ timing.printed # ""
    /\ data = DelKey(TwoSteps, "build_order")

(***************************************************************************)
(* Generators.                                                             *)
(***************************************************************************)
\* d without its last step
ClaimWithoutLastStep(d) ==
    SetKey(d, "build_order", PyList(SubSeq(Steps(d), 1, Len(Steps(d)) - 1)))

\* the last step of d carries the villager_count, age and resources of the
\* step before it and the two placeholder notes
ClaimLastStepGenerated(d) ==
    /\ Len(Steps(d)) >= 2
    /\ LET before == Steps(d)[Len(Steps(d)) - 1]
           last == Steps(d)[Len(Steps(d))]
       IN  /\ before.t = "dict"
           /\ \A field \in {"villager_count", "age", "resources"} : HasKey(before, field)
           /\ last = PyDict(<< <<"villager_count", Lookup(before, "villager_count")>>,
                               <<"age", Lookup(before, "age")>>,
                               <<"resources", Lookup(before, "resources")>>,
                               <<"notes", PyList(<<PyStr("Note 1."), PyStr("Note 2.")>>)>> >>)

\* C13 as stated: the validator answers (True, '') on the template, and on a
\* valid document to which the step generated from its build order was
\* appended.
C13_AsStated ==
    Called =>
        /\ data_at_call = get_aoe2_build_order_template => result = Return(TRUE, "")
        /\ ( /\ ClaimLastStepGenerated(data_at_call)
             /\ check_valid_aoe2_build_order(ClaimWithoutLastStep(data_at_call),
                                             bo_name_msg, aoe2_civilization_icon).ok )
           => result = Return(TRUE, "")

(***************************************************************************)
(* Build-order editor.                                                     *)
(***************************************************************************)
\* the editor holds a build order
ClaimHolds == window.build_order # PyNone

\* C14: once a text change, a reset, an added step or a formatting is
\* completed, the build_order the editor holds is None or a document the
\* validator accepts, and the 'Add step' and 'Format' buttons show exactly
\* when it is not None - so 'Add step' can be clicked only on a validated
\* document.
C14_EditorHoldsValidated ==
    /\ ClaimHolds =>
          check_valid_aoe2_build_order(window.build_order, FALSE,
                                       aoe2_civilization_icon) = Return(TRUE, "")
    /\ window.add_step_button <=> ClaimHolds
    /\ window.format_bo_button <=> ClaimHolds

\* the build order was reset to the template and a step was added: the
\* editor holds the validated two-step document and shows both buttons
C14_Witness ==
    /\ ClaimHolds
    /\ window.text_input = json_dumps(window.build_order)
    /\ Steps(window.build_order)
         = <<get_aoe2_build_order_step(PyNone).v, get_aoe2_build_order_step(PyNone).v>>
    /\ window.add_step_button
    /\ window.format_bo_button

(***************************************************************************)
(* Order of the checks.                                                    *)
(***************************************************************************)
\* one rule of the validator on one document: is it violated, and what is
\* then reported
ClaimRule(bad, msg) == [bad |-> bad, msg |-> IF bad THEN msg ELSE ""]

\* the answer given the rules in the order they are applied
ClaimFirst(rules) ==
    IF \E i \in 1..Len(rules) : rules[i].bad
    THEN LET first == CHOOSE i \in 1..Len(rules) :
                          rules[i].bad /\ \A j \in 1..(i - 1) : ~rules[j].bad
         IN  Return(FALSE, rules[first].msg)
    ELSE Return(TRUE, "")

\* containers have the type the schema gives them; scalars are free
ClaimContainersTyped(d) ==
    /\ d.t = "dict"
    /\ HasKey(d, "civilization") =>
          LET civ == Lookup(d, "civilization")
          IN  \/ civ.t = "str"
              \/ civ.t = "list" /\ \A i \in 1..Len(civ.l) : civ.l[i].t = "str"
    /\ HasKey(d, "build_order") =>
          /\ Lookup(d, "build_order").t = "list"
          /\ \A k \in 1..Len(Steps(d)) :
                LET step == Steps(d)[k]
                IN  /\ step.t = "dict"
                    /\ HasKey(step, "resources") => Lookup(step, "resources").t = "dict"
                    /\ HasKey(step, "notes") => Lookup(step, "notes").t = "list"

ClaimStepFieldOrder == <<"villager_count", "age", "resources", "notes">>
ClaimResourceOrder == <<"wood", "food", "gold", "stone">>

\* the rules on a civilization value
ClaimCivilizationRules(d, table, p) ==
    IF ~HasKey(d, "civilization") THEN <<>>
    ELSE LET civ == Lookup(d, "civilization")
             unknown(c) == ClaimRule(c.s \notin table \cup {"Any", "any"},
                                     p \o "Unknown civilization '" \o c.s
                                       \o "' (check spelling).")
         IN  IF civ.t = "str" THEN <<unknown(civ)>>
             ELSE <<ClaimRule(Len(civ.l) = 0, p \o "Valid civilization list is empty.")>>
                  \o [i \in 1..Len(civ.l) |-> unknown(civ.l[i])]

\* the rules on step k (counted from 0), in the order of the claim
ClaimStepRules(step, k, p) ==
    LET s == p \o "Step " \o ToString(k)
        has(f) == HasKey(step, f)
        resources == Lookup(step, "resources")
        notes == Lookup(step, "notes").l
        hasres(f) == has("resources") /\ HasKey(resources, f)
    IN  [i \in 1..4 |->
            ClaimRule(~has(ClaimStepFieldOrder[i]),
                      s \o " is missing the '" \o ClaimStepFieldOrder[i] \o "' field.")]
        \o <<ClaimRule(has("villager_count")
                         /\ Lookup(step, "villager_count").t \notin {"int", "bool"},
                       s \o " has invalid villager count ("
                         \o Format(Lookup(step, "villager_count")) \o ")."),
             ClaimRule(has("age") /\ ClaimAgeRejected(Lookup(step, "age")),
                       s \o " has invalid age number (" \o Format(Lookup(step, "age"))
                         \o ") (max: 4 for Imperial).")>>
        \o [i \in 1..4 |->
               ClaimRule(has("resources") /\ ~hasres(ClaimResourceOrder[i]),
                         s \o " is missing the '" \o ClaimResourceOrder[i]
                           \o "' field in 'resources'.")]
        \o [i \in 1..4 |->
               ClaimRule(hasres(ClaimResourceOrder[i])
                           /\ ~is_valid_resource(Lookup(resources, ClaimResourceOrder[i])),
                         s \o " has an invalid '" \o ClaimResourceOrder[i]
                           \o "' resource ("
                           \o Format(Lookup(resources, ClaimResourceOrder[i])) \o ").")]
        \o <<ClaimRule(hasres("builder")
                         /\ ~is_valid_resource(Lookup(resources, "builder")),
                       s \o " has an invalid 'builder' resource."),
             ClaimRule(has("notes") /\ \E i \in 1..Len(notes) : notes[i].t # "str",
                       s \o " note '"
                         \o Format(notes[CHOOSE i \in 1..Len(notes) :
                                            /\ notes[i].t # "str"
                                            /\ \A j \in 1..(i - 1) : notes[j].t = "str"])
                         \o "' is not a string.")>>

\* the rules of all the steps, by increasing index
RECURSIVE ClaimStepsRules(_, _, _)
ClaimStepsRules(steps, k, p) ==
    IF Len(steps) = 0 THEN <<>>
    ELSE ClaimStepRules(Head(steps), k, p) \o ClaimStepsRules(Tail(steps), k + 1, p)

ClaimAbsentRule(d, key, p) ==
    ClaimRule(~HasKey(d, key), p \o "Wrong JSON key: '" \o key \o "'.")

ClaimEmptyRule(d, p) ==
    ClaimRule(HasKey(d, "build_order") /\ Len(Steps(d)) = 0, p \o "Build order is empty.")

\* the order of the claim: civilization, build_order absent or empty, steps
ClaimOrderStated(d, table, p) ==
    ClaimCivilizationRules(d, table, p)
    \o <<ClaimAbsentRule(d, "build_order", p), ClaimEmptyRule(d, p)>>
    \o ClaimStepsRules(Steps(d), 0, p)

\* the order with an absent name and an absent build_order ahead of the
\* civilization
ClaimOrderKeysFirst(d, table, p) ==
    <<ClaimAbsentRule(d, "name", ""), ClaimAbsentRule(d, "build_order", p)>>
    \o ClaimCivilizationRules(d, table, p)
    \o <<ClaimEmptyRule(d, p)>>
    \o ClaimStepsRules(Steps(d), 0, p)

\* the prefix the call puts before its messages
ClaimCallPrefix ==
    IF bo_name_msg /\ HasKey(data_at_call, "name")
    THEN Format(Lookup(data_at_call, "name")) \o " | " ELSE ""

\* C15 as stated: the answer is the message of the earliest violation in the
\* order civilization, build_order absent or empty, steps by index (inside
\* a step: the four fields present, villager_count, age, the four resources
\* present, the four resources valid, builder, notes elements), on documents
\* that carry a name.
C15_AsStated ==
    (Called /\ ClaimContainersTyped(data_at_call) /\ HasKey(data_at_call, "name")) =>
        result = ClaimFirst(ClaimOrderStated(data_at_call, aoe2_civilization_icon,
                                             ClaimCallPrefix))

\* C15, amended: the answer is the message of the earliest violation in the
\* order name absent, build_order absent, civilization, build_order empty,
\* steps by index (inside a step as stated), and nothing of a later
\* violation.
C15_FirstViolation ==
    (Called /\ ClaimContainersTyped(data_at_call)) =>
        result = ClaimFirst(ClaimOrderKeysFirst(data_at_call, aoe2_civilization_icon,
                                                ClaimCallPrefix))

\* two violations: the first step got a villager_count that is a string and
\* has an age of 5; the answer is about the villager count
C15_Witness ==
    /\ Called
    /\ data_at_call = WithStep(FaultyFirstAge, 1,
                               SetKey(Steps(FaultyFirstAge)[1], "villager_count",
                                      PyStr("6")))
    /\ result = Return(FALSE, "Step 0 has invalid villager count (6).")

(***************************************************************************)
(* Absent or empty build order.                                            *)
(***************************************************************************)
\* the document is a mapping without build_order
ClaimBuildOrderAbsent(d) == d.t = "dict" /\ ~HasKey(d, "build_order")

\* the document is a mapping whose build_order has no step
ClaimBuildOrderEmpty(d) ==
    d.t = "dict" /\ HasKey(d, "build_order") /\ Lookup(d, "build_order") = PyList(<<>>)

\* the civilization field passes: it is absent, or ClaimKnownCivilization
ClaimCivilizationPasses(d, table) ==
    HasKey(d, "civilization") => ClaimKnownCivilization(Lookup(d, "civilization"), table)

\* C16: every document whose build_order is absent or has zero steps is
\* rejected.  When nothing checked before it is at fault (the name is there
\* and, for the empty build order, the civilization passes) the message is
\* 'Build order is empty.' for the empty one and "Wrong JSON key:
\* 'build_order'." for the absent one, after the name prefix when
\* bo_name_msg is set.
C16_AbsentOrEmptyRejected ==
    Called =>
        /\ (ClaimBuildOrderAbsent(data_at_call) \/ ClaimBuildOrderEmpty(data_at_call))
              => ~result.ok
        /\ (ClaimBuildOrderEmpty(data_at_call) /\ HasKey(data_at_call, "name")
              /\ ClaimCivilizationPasses(data_at_call, aoe2_civilization_icon))
              => result = Return(FALSE, ClaimCallPrefix \o "Build order is empty.")
        /\ (ClaimBuildOrderAbsent(data_at_call) /\ HasKey(data_at_call, "name"))
              => result = Return(FALSE, ClaimCallPrefix \o "Wrong JSON key: 'build_order'.")

\* the steps of the two-step document were replaced by an empty list and the
\* validator answered 'Build order is empty.'
C16_Witness ==
    /\ Called
    /\ data_at_call = SetKey(TwoSteps, "build_order", PyList(<<>>))
    /\ result = Return(FALSE, "Build order is empty.")

(***************************************************************************)
(* Messages about a step.                                                  *)
(***************************************************************************)
\* everything checked before the steps passes: name, a list of steps that is
\* not empty, the civilization
ClaimBeforeStepsPasses(d, table) ==
    /\ d.t = "dict"
    /\ HasKey(d, "name")
    /\ Steps(d) # <<>>
    /\ ClaimCivilizationPasses(d, table)

\* d with the step at position k as its only step
ClaimOnlyStep(d, k) == SetKey(d, "build_order", PyList(<<Steps(d)[k]>>))

\* the position (from 1) of the first step that is rejected when it stands
\* alone in the document; 0 when there is none
ClaimFirstFaultyStep(d, table) ==
    LET faulty == {k \in 1..Len(Steps(d)) :
                      ~check_valid_aoe2_build_order(ClaimOnlyStep(d, k), FALSE, table).ok}
    IN  IF faulty = {} THEN 0
        ELSE CHOOSE k \in faulty : \A j \in faulty : k <= j

\* the ways the messages spell the fields of a step
ClaimFieldWords ==
    {"'villager_count'", "villager count", "'age'", "age number", "'resources'",
     "'notes'", "note '", "'wood'", "'food'", "'gold'", "'stone'", "'builder'"}

\* msg names the step of 0-based index k and a field
ClaimNamesStepAndField(msg, k, prefix) ==
    LET start == prefix \o "Step " \o ToString(k) \o " "
    IN  /\ Len(msg) > Len(start)
        /\ SubSeq(msg, 1, Len(start)) = start
        /\ \E word \in ClaimFieldWords : Contains(ClaimStripped(msg, start), word)

\* the step, its resources or its notes is not the container the schema asks
ClaimWrongContainer(step) ==
    \/ step.t # "dict"
    \/ /\ step.t = "dict"
       /\ \/ HasKey(step, "resources") /\ Lookup(step, "resources").t # "dict"
          \/ HasKey(step, "notes") /\ Lookup(step, "notes").t # "list"

\* C17 as stated: every failure located inside a step is reported with the
\* index of the step and the name of the field, whatever the type of the
\* step, of its resources and of its notes.
C17_AsStated ==
    ( /\ Called
      /\ ClaimBeforeStepsPasses(data_at_call, aoe2_civilization_icon)
      /\ ~result.ok ) =>
        ClaimNamesStepAndField(
            result.msg,
            ClaimFirstFaultyStep(data_at_call, aoe2_civilization_icon) - 1,
            ClaimCallPrefix)

\* C17, amended: a failure located inside a step whose containers have the
\* right type (the step a mapping, resources a mapping, notes a list) is
\* reported with the index of the step and the name of the field; a message
\* that does not do so comes from a step, resources or notes of another type
\* and mentions no step at all.
C17_StepAndFieldNamed ==
    ( /\ Called
      /\ ClaimBeforeStepsPasses(data_at_call, aoe2_civilization_icon)
      /\ ~result.ok ) =>
        LET k == ClaimFirstFaultyStep(data_at_call, aoe2_civilization_icon)
            named == ClaimNamesStepAndField(result.msg, k - 1, ClaimCallPrefix)
        IN  /\ k > 0
            /\ ~ClaimWrongContainer(Steps(data_at_call)[k]) => named
            /\ ~named => ~Contains(result.msg, "Step")

\* the second step of the two-step document got a wood amount of -2: the
\* message names step 1 and 'wood'
C17_Witness ==
    /\ Called
    /\ ClaimBeforeStepsPasses(data_at_call, aoe2_civilization_icon)
    /\ ClaimFirstFaultyStep(data_at_call, aoe2_civilization_icon) = 2
    /\ result = Return(FALSE, "Step 1 has an invalid 'wood' resource (-2).")

(***************************************************************************)
(* The name prefix.                                                        *)
(***************************************************************************)
\* the document declares a name
ClaimNamed(d) == d.t = "dict" /\ HasKey(d, "name")

\* msg starts with start
ClaimStartsWith(msg, start) ==
    Len(msg) >= Len(start) /\ SubSeq(msg, 1, Len(start)) = start

\* what the call answers on the same document with the flag set to flag
ClaimAnswer(flag) ==
    IF flag = bo_name_msg THEN result
    ELSE check_valid_aoe2_build_order(data_at_call, flag, aoe2_civilization_icon)

\* C18: on a document that declares a name, every failure message of a call
\* with bo_name_msg true is the name, ' | ', and then the message of the call
\* with bo_name_msg false, which does not carry that prefix; the validity
\* flag is the same for both.  A document that declares no name is answered
\* the same with both values of the flag.
C18_NamePrefix ==
    Called =>
        LET with == ClaimAnswer(TRUE)
            without == ClaimAnswer(FALSE)
        IN  /\ with.ok = without.ok
            /\ IF ClaimNamed(data_at_call) /\ ~with.ok
               THEN LET prefix == Format(Lookup(data_at_call, "name")) \o " | "
                    IN  /\ with.msg = prefix \o without.msg
                        /\ ~ClaimStartsWith(without.msg, prefix)
               ELSE with.msg = without.msg

\* the validator was called with bo_name_msg true on the two-step document
\* emptied of its steps
C18_Witness ==
    /\ Called
    /\ bo_name_msg
    /\ data_at_call = SetKey(TwoSteps, "build_order", PyList(<<>>))
    /\ result = Return(FALSE, "BO | Build order is empty.")

(***************************************************************************)
(* Type of villager_count.                                                 *)
(***************************************************************************)
\* the step is a mapping with its four fields
ClaimStepComplete(step) ==
    step.t = "dict" /\ \A field \in StepFields : HasKey(step, field)

\* the step has a villager_count that is no JSON integer: a string, a
\* fractional number, true/false, null, a list or a mapping
ClaimVillagerCountNotInteger(step) ==
    ClaimStepComplete(step) /\ Lookup(step, "villager_count").t # "int"

\* the steps before position k are accepted, each standing alone
ClaimEarlierStepsPass(d, k, table) ==
    \A j \in 1..(k - 1) :
        check_valid_aoe2_build_order(ClaimOnlyStep(d, j), FALSE, table).ok

\* C19 as stated: a step whose villager_count is not an integer (a boolean
\* included) makes the validator reject the document, and when the steps
\* before it pass the message is the one of the invalid villager count.
C19_AsStated ==
    (Called /\ ClaimBeforeStepsPasses(data_at_call, aoe2_civilization_icon)) =>
        \A k \in 1..Len(Steps(data_at_call)) :
            ClaimVillagerCountNotInteger(Steps(data_at_call)[k]) =>
                /\ ~result.ok
                /\ ClaimEarlierStepsPass(data_at_call, k, aoe2_civilization_icon) =>
                      result.msg = ClaimCallPrefix \o "Step " \o ToString(k - 1)
                                   \o " has invalid villager count ("
                                   \o Format(Lookup(Steps(data_at_call)[k], "villager_count"))
                                   \o ")."

(***************************************************************************)
(* Notes.                                                                  *)
(***************************************************************************)
\* the notes of the step are a list of strings
ClaimNotesListOfStrings(step) ==
    LET notes == Lookup(step, "notes")
    IN  notes.t = "list" /\ \A i \in 1..Len(notes.l) : notes.l[i].t = "str"

\* the document, with empty notes in every step, is accepted: only the
\* notes can be at fault
ClaimOnlyNotesInQuestion(d, table) ==
    /\ ClaimBeforeStepsPasses(d, table)
    /\ \A k \in 1..Len(Steps(d)) : ClaimStepComplete(Steps(d)[k])
    /\ check_valid_aoe2_build_order(
           SetKey(d, "build_order",
                  PyList([k \in 1..Len(Steps(d)) |->
                             SetKey(Steps(d)[k], "notes", PyList(<<>>))])),
           FALSE, table).ok

\* C20 as stated: a document is rejected for its notes exactly when the
\* notes of some step are not a list of strings - a list with an element
\* that is no string, or a value that is no list (a single string, a
\* mapping).
C20_AsStated ==
    (Called /\ ClaimOnlyNotesInQuestion(data_at_call, aoe2_civilization_icon)) =>
        (result.ok <=> \A k \in 1..Len(Steps(data_at_call)) :
                           ClaimNotesListOfStrings(Steps(data_at_call)[k]))

(***************************************************************************)
(* The optional builder count.                                             *)
(***************************************************************************)
\* the text of the rejection of the builder count of the step at position k
ClaimBuilderText(k) ==
    ClaimCallPrefix \o "Step " \o ToString(k - 1) \o " has an invalid 'builder' resource."

\* the four core resources of the step are present and valid
ClaimCoreResourcesPass(step) ==
    /\ HasResources(step)
    /\ \A field \in CoreResources :
          /\ HasKey(Lookup(step, "resources"), field)
          /\ is_valid_resource(Lookup(Lookup(step, "resources"), field))

\* the builder check of the step at position k is reached: everything
\* before the steps passes, the steps before it pass, and its
\* villager_count, age and four core resources pass
ClaimBuilderReached(d, k, table) ==
    /\ ClaimBeforeStepsPasses(d, table)
    /\ ClaimEarlierStepsPass(d, k, table)
    /\ ClaimStepComplete(Steps(d)[k])
    /\ IsInstanceInt(Lookup(Steps(d)[k], "villager_count"))
    /\ IsInstanceInt(Lookup(Steps(d)[k], "age"))
    /\ IntOf(Lookup(Steps(d)[k], "age")) <= 4
    /\ ClaimCoreResourcesPass(Steps(d)[k])

\* the step has a builder count that fails the rule of the core resources
ClaimBuilderInvalid(step) ==
    /\ HasKey(Lookup(step, "resources"), "builder")
    /\ ~is_valid_resource(Lookup(Lookup(step, "resources"), "builder"))

\* C21: the builder count is optional. A document is rejected for the
\* builder of a step only when the resources of that step have a builder key
\* whose value fails the validity rule of wood/food/gold/stone and the four
\* core resources of the step passed; and a step that reaches the builder
\* check is rejected for it exactly when its builder is present and invalid,
\* so a step without builder key is never rejected for that reason.
C21_BuilderOptional ==
    Called =>
        \A k \in 1..Len(Steps(data_at_call)) :
            /\ (result.msg = ClaimBuilderText(k)) =>
                  /\ ClaimCoreResourcesPass(Steps(data_at_call)[k])
                  /\ ClaimBuilderInvalid(Steps(data_at_call)[k])
            /\ ClaimBuilderReached(data_at_call, k, aoe2_civilization_icon) =>
                  ((result.msg = ClaimBuilderText(k))
                      <=> ClaimBuilderInvalid(Steps(data_at_call)[k]))

\* a step whose builder count is invalid was rejected for it, after its four
\* core resources passed
C21_Witness ==
    /\ Called
    /\ \E k \in 1..Len(Steps(data_at_call)) :
          /\ ClaimBuilderReached(data_at_call, k, aoe2_civilization_icon)
          /\ ClaimBuilderInvalid(Steps(data_at_call)[k])
          /\ result = Return(FALSE, ClaimBuilderText(k))

(***************************************************************************)
(* Timing of documents that are not schema-valid.                          *)
(***************************************************************************)
\* the timing evaluator was called on a mapping with a build_order field
ClaimTimedWithBuildOrder ==
    /\ timing.kind # "none"
    /\ data_at_call.t = "dict"
    /\ HasKey(data_at_call, "build_order")

\* the step carries a time
ClaimTimed(step) == step.t = "dict" /\ HasKey(step, "time")

\* time is set on some steps of d and not on the others
ClaimHalfUpdated(d) ==
    /\ \E k \in 1..Len(Steps(d)) : ClaimTimed(Steps(d)[k])
    /\ \E k \in 1..Len(Steps(d)) : ~ClaimTimed(Steps(d)[k])

\* C22 as stated: on every document that has a build_order field, schema-valid
\* or not (a step may lack villager_count), evaluate_aoe2_build_order_timing
\* completes without failure and never leaves the document half-updated.
C22_AsStated ==
    ClaimTimedWithBuildOrder => (TimingReturned /\ ~ClaimHalfUpdated(data))

(***************************************************************************)
(* What the timing evaluator leaves alone.                                 *)
(***************************************************************************)
\* d with the time field taken out of every step that is a mapping
ClaimWithoutTimes(d) ==
    IF d.t = "dict" /\ HasKey(d, "build_order") /\ Lookup(d, "build_order").t = "list"
    THEN SetKey(d, "build_order",
                PyList([k \in 1..Len(Steps(d)) |->
                           IF Steps(d)[k].t = "dict" THEN DelKey(Steps(d)[k], "time")
                           ELSE Steps(d)[k]]))
    ELSE d

\* the top-level fields of d other than build_order, in their order
ClaimTopLevel(d) == IF d.t = "dict" THEN DelKey(d, "build_order") ELSE d

\* C23: evaluate_aoe2_build_order_timing changes nothing but the time field of
\* the steps: the number and the order of the steps, every other field of
\* every step and every top-level field of the document are as before the
\* call, and a second call with the same offset leaves the document as the
\* first call left it.
C23_OnlyTimeChanges ==
    (timing.kind # "none") =>
        /\ Len(Steps(data)) = Len(Steps(data_at_call))
        /\ ClaimTopLevel(data) = ClaimTopLevel(data_at_call)
        /\ ClaimWithoutTimes(data) = ClaimWithoutTimes(data_at_call)
        /\ (calls = 2) => data = data_at_call

\* the two-step document was timed twice with offset 30: both steps carry
\* their time and the second call changed nothing
C23_Witness ==
    /\ TimingReturned
    /\ calls = 2
    /\ time_offset = 30
    /\ ClaimWithoutTimes(data) = TwoSteps
    /\ \A k \in 1..Len(Steps(data)) : ClaimTimed(Steps(data)[k])
    /\ data = data_at_call

(***************************************************************************)
(* What the generators hand back.                                          *)
(***************************************************************************)
\* the step of a call without argument, as the claim words it
ClaimDefaultResources ==
    PyDict(<< <<"wood", PyInt(0)>>, <<"food", PyInt(0)>>,
              <<"gold", PyInt(0)>>, <<"stone", PyInt(0)>> >>)
ClaimDefaultOf(field) ==
    CASE field = "villager_count" -> PyInt(0)
      [] field = "age" -> PyInt(1)
      [] field = "resources" -> ClaimDefaultResources

\* exactly two notes, both strings
ClaimTwoPlaceholders(step) ==
    /\ HasKey(step, "notes")
    /\ Lookup(step, "notes").t = "list"
    /\ Len(Lookup(step, "notes").l) = 2
    /\ \A i \in 1..2 : Lookup(step, "notes").l[i].t = "str"

\* the fields of v are exactly these keys
ClaimKeys(v, keys) == v.t = "dict" /\ {v.kv[i][1] : i \in 1..Len(v.kv)} = keys

\* step carries villager_count, age and resources of last where last has
\* them, the defaults where it has not, and the two placeholders
ClaimCarriedForward(step, last) ==
    /\ ClaimKeys(step, StepFields)
    /\ \A field \in {"villager_count", "age", "resources"} :
          Lookup(step, field) = IF HasKey(last, field) THEN Lookup(last, field)
                                ELSE ClaimDefaultOf(field)
    /\ ClaimTwoPlaceholders(step)

\* the argument of the last call is a non-empty build order whose last step
\* is a mapping
ClaimFromBuildOrder ==
    /\ generated.kind = "step"
    /\ generated.argument.t = "list"
    /\ Len(generated.argument.l) >= 1
    /\ generated.argument.l[Len(generated.argument.l)].t = "dict"

\* C24: get_aoe2_build_order_step() hands back villager_count 0, age 1, the
\* four resources at 0 and exactly two placeholder notes; with a non-empty
\* build order it hands back the villager_count, age and resources of the
\* last step where present, these defaults otherwise, and always the two
\* placeholders; get_aoe2_build_order_template() hands back placeholder
\* name, author and source and a build_order of exactly one default step.
\* The argument is after the call what it was before.
C24_GeneratorsAsStated ==
    /\ (generated.kind = "step" /\ generated.argument = PyNone) =>
          /\ generated.returned.kind = "value"
          /\ ClaimCarriedForward(generated.returned.v, PyDict(<<>>))
    /\ ClaimFromBuildOrder =>
          /\ generated.returned.kind = "value"
          /\ ClaimCarriedForward(generated.returned.v,
                                 generated.argument.l[Len(generated.argument.l)])
    /\ (generated.kind = "template") =>
          /\ generated.returned.kind = "value"
          /\ \A field \in {"name", "author", "source"} :
                /\ HasKey(generated.returned.v, field)
                /\ Lookup(generated.returned.v, field).t = "str"
          /\ Len(Steps(generated.returned.v)) = 1
          /\ ClaimCarriedForward(Steps(generated.returned.v)[1], PyDict(<<>>))
    /\ (generated.kind # "none") => data = data_at_call
    /\ (generated.kind = "step" /\ generated.argument # PyNone) =>
          generated.argument = Lookup(data, "build_order")

\* a step was derived from a build order of two steps whose last step has an
\* age and resources of its own but no villager_count
C24_Witness ==
    /\ ClaimFromBuildOrder
    /\ Len(generated.argument.l) = 2
    /\ ~HasKey(generated.argument.l[2], "villager_count")
    /\ HasKey(generated.argument.l[2], "resources")
    /\ Lookup(generated.argument.l[2], "age") = PyInt(2)
    /\ generated.returned.kind = "value"
    /\ Lookup(generated.returned.v, "villager_count") = PyInt(0)
    /\ Lookup(generated.returned.v, "age") = PyInt(2)

(***************************************************************************)
(* The match-data threads of the overlays.                                 *)
(***************************************************************************)
\* an overlay runs
Overlaid == overlay.game # "none"

\* the last step was a handler of the overlay, not the end of a thread
ClaimHandlerRan ==
    handled.handler \in {"timer_match_data_call", "enter_key_actions", "reload"}

\* the match-data searches launched and not yet consumed by
\* fetch_game_match_data: threads running, and results deposited
ClaimOutstanding(o) == Len(o.match_data_threads) + Len(o.store_match_data)

\* C25: in each overlay at most one match-data thread is outstanding: from
\* its launch to the moment fetch_game_match_data consumes the result it
\* deposited no second one is launched, whatever the order of timer ticks,
\* Enter-key actions and reloads after the constructor (each thread
\* depositing exactly one result when it ends).
C25_OneMatchDataThread ==
    Overlaid =>
        /\ ClaimOutstanding(overlay) <= 1
        /\ (ClaimHandlerRan /\ Len(handled.before.match_data_threads) >= 1) =>
              Len(overlay.match_data_threads) = Len(handled.before.match_data_threads)

\* Enter selected another username while the search for the previous one was
\* still running, and no second thread was launched
C25_Witness ==
    /\ Overlaid
    /\ handled.handler = "enter_key_actions"
    /\ Len(handled.before.match_data_threads) = 1
    /\ overlay.selected_username # PyNone
    /\ overlay.selected_username # handled.before.selected_username
    /\ Len(overlay.match_data_threads) = 1

(***************************************************************************)
(* The game-parameters threads of the AoE2 overlay.                        *)
(***************************************************************************)
\* C26 as stated: in the AoE2 overlay at most one game-parameters thread is
\* running at any time - the constructor, reload and the retry branch of
\* fetch_game_match_data launch none while an earlier one has not deposited
\* its result - so store_game_parameters never holds more than one element,
\* also when reload is called while a parameters thread is running.
C26_AsStated ==
    (Overlaid /\ overlay.game = "aoe2") =>
        /\ overlay.game_parameters_threads <= 1
        /\ Len(overlay.store_game_parameters) <= 1

(***************************************************************************)
(* The match held by the overlay.                                          *)
(***************************************************************************)
\* v is a result that names a match
ClaimIsMatch(v) == IF v = PyNone THEN FALSE ELSE v.match_id # PyNone

\* the last step was a call of fetch_game_match_data (from the timer or the
\* Enter key) that went on to launch a search
ClaimFetched ==
    /\ handled.handler \in {"timer_match_data_call", "enter_key_actions"}
    /\ Len(overlay.match_data_threads) > Len(handled.before.match_data_threads)

\* ... and found a deposited result
ClaimConsumed == ClaimFetched /\ Len(handled.before.store_match_data) >= 1

\* the result that call found first in store_match_data
ClaimDeposited == handled.before.store_match_data[1]

\* C27: in both overlays match_data is None or a result whose match_id is
\* not None.  fetch_game_match_data replaces it only by a deposited result
\* with a match_id; a deposited result without match_id leaves a match
\* already held (it sets match_data_warnings, and only while match_data is
\* None); store_match_data is empty after each consumption; and only reload
\* sets match_data back to None.
C27_MatchDataHeld ==
    Overlaid =>
        /\ overlay.match_data = PyNone \/ ClaimIsMatch(overlay.match_data)
        /\ ClaimFetched => overlay.store_match_data = <<>>
        /\ (handled.handler # "__init__" /\ overlay.match_data # handled.before.match_data) =>
              \/ handled.handler = "reload" /\ overlay.match_data = PyNone
              \/ /\ ClaimConsumed
                 /\ ClaimIsMatch(ClaimDeposited)
                 /\ overlay.match_data = ClaimDeposited
        /\ (ClaimConsumed /\ ClaimIsMatch(ClaimDeposited)) =>
              /\ overlay.match_data = ClaimDeposited
              /\ overlay.match_data_warnings = handled.before.match_data_warnings
        /\ (ClaimConsumed /\ ~ClaimIsMatch(ClaimDeposited)) =>
              /\ overlay.match_data = handled.before.match_data
              /\ overlay.match_data_warnings =
                    IF ClaimDeposited # PyNone /\ handled.before.match_data = PyNone
                    THEN ClaimDeposited.warnings
                    ELSE handled.before.match_data_warnings

\* the search that followed a match came back without match: the match held
\* stays and the warnings are not taken
C27_Witness ==
    /\ Overlaid
    /\ ClaimConsumed
    /\ ClaimDeposited # PyNone
    /\ ~ClaimIsMatch(ClaimDeposited)
    /\ ClaimIsMatch(handled.before.match_data)
    /\ overlay.match_data = handled.before.match_data
    /\ overlay.match_data_warnings = <<>>
    /\ overlay.store_match_data = <<>>

(***************************************************************************)
(* Whose match the overlay holds.                                          *)
(***************************************************************************)
\* the result comes from a search launched for the username now selected,
\* after the last reload
ClaimCurrent(found, o) ==
    found.search_input = o.selected_username /\ ~found.reloaded

\* C28 as stated: in both overlays, whenever match_data is not None it is the
\* result of a search launched for the currently selected username and after
\* the last reload; a result deposited by a thread launched for a previous
\* username, or before a reload, is never stored in match_data nor used as
\* last_match_id of the next search.
C28_AsStated ==
    Overlaid =>
        /\ (overlay.match_data # PyNone) => ClaimCurrent(overlay.match_data, overlay)
        /\ (ClaimConsumed /\ ClaimIsMatch(ClaimDeposited)
              /\ ~ClaimCurrent(ClaimDeposited, handled.before)) =>
                 /\ overlay.match_data # ClaimDeposited
                 /\ \A k \in 1..Len(overlay.match_data_threads) :
                       overlay.match_data_threads[k].last_match_id
                          # ClaimDeposited.match_id

(***************************************************************************)
(* Display of an accepted build order.                                     *)
(***************************************************************************)
\* a step of a document the validator accepts was handed to update_build_order
ClaimDisplayCalled ==
    /\ displayed.kind = "called"
    /\ check_valid_aoe2_build_order(displayed.selected_build_order, TRUE,
                                    aoe2_civilization_icon).ok

\* C29 as stated: every document accepted by check_valid_aoe2_build_order
\* can be displayed by the AoE2 overlay: for each of its steps
\* update_build_order builds the resources line and the notes rows without
\* failure, also when a resource is a structured breakdown (a mapping), when
\* the age is 0 or negative, and for every type of notes or villager_count
\* the validator lets through.
C29_AsStated ==
    ClaimDisplayCalled => displayed.outcome.kind = "shown"

(***************************************************************************)
(* A derived step and the step it was derived from.                        *)
(***************************************************************************)
\* an assignment was made to a resource of a step of a build order to which
\* a step derived from it had been appended
ClaimAssignedAfterDerivation == assigned.kind = "resource" /\ objects # <<>>

\* C30 as stated: a step returned by get_aoe2_build_order_step(build_order)
\* shares no mutable state with the build order it was derived from: once it
\* is appended, changing a resource amount of the new step leaves the
\* resources of the previous last step as they were, and conversely - every
\* step other than the one assigned to is what it was before the assignment.
C30_AsStated ==
    ClaimAssignedAfterDerivation =>
        \A j \in 1..Len(Steps(assigned.before)) :
            (j # assigned.step_id) =>
                StepResolved(Steps(data)[j], objects) = Steps(assigned.before)[j]

=============================================================================
